---- MODULE Spec2Model ----
(***************************************************************************)
(* Model of the agent-observer status server (server/src/app.ts): the      *)
(* in-memory registry `store`, the debounce map `pendingWaiting` with the  *)
(* event loop's timer list, the WebSocket hub (wss.clients and what was    *)
(* sent on each connection), and the HTTP handlers.  Every handler runs to *)
(* completion on Node's single thread, so each is one atomic action.       *)
(***************************************************************************)
EXTENDS Integers, Sequences, FiniteSets, TLC

VARIABLES
  store,          \* Map<string, AgentStatus>: the records in insertion order
  pendingWaiting, \* Map<string, Timeout>: agentId -> timer handle
  timers,         \* the event loop's live setTimeout handles [h, agentId, due]
  conn,           \* per WebSocket connection: "new" | "OPEN" | "CLOSING" | "CLOSED"
  msgs,           \* per connection: the payloads the server sent on it, in order
  now,            \* Date.now(), in ms since the server was created
  req,            \* the request / event handled last
  resp,           \* the HTTP response to it
  prev,           \* the values of the other variables before it
  window,         \* history: per agent with a pending debounce, where each
                  \* observer's stream stood when its waiting_for_user report
                  \* was accepted, and whether a label patch for the agent was
                  \* accepted since
  steps,          \* number of events handled so far
  listening,      \* the HTTP and WebSocket servers accept new connections
  cleanupInterval,\* the setInterval that runs runCleanup is scheduled
  windows,        \* server-manager.ts, per extension window: whether it is
                  \* active, its instanceId, the server it found or started
  instances,      \* the file names in ~/.agent-observer/instances
  lockFile,       \* ~/.agent-observer/server.lock: the pid in it, 0 when absent
  servers,        \* the pids of the server processes that are alive
  signalled,      \* the pids that have been sent SIGTERM
  fresh,          \* the last pid or instance name given out
  event,          \* the step of an extension window or server process taken last
  hook,           \* one run of agent-observer-hook.sh: its inputs, the statement
                  \* it is at, its exit status
  sorting,        \* one call of sortAgents: its arguments and what it returned
  probe,          \* one run of the debounce timer's callback on a registry
                  \* given to it: the registry, the agent, what it broadcast
  client          \* the observer's WebSocketClient: its fields, the sockets it
                  \* created, the live reconnect timers

\* no run of the hook script, no call of sortAgents
NoHook == [pc |-> "idle"]

NoSorting == [pc |-> "idle"]

NoProbe == [pc |-> "idle"]

\* new WebSocketClient(port): ws null (0), reconnectTimer null (0), not
\* disposed; no socket created yet, no timer set; madeAtDispose: the number
\* of sockets created when dispose() was called, -1 before
NewClient ==
  [ws |-> 0, port |-> 1, reconnectTimer |-> 0, reconnectDelay |-> 1000,
   disposed |-> FALSE, sockets |-> {}, made |-> 0, timers |-> {}, set |-> 0,
   madeAtDispose |-> -1, op |-> "new"]

\* what shutdown alone changes
life == <<listening, cleanupInterval>>

\* the machine of the extension windows, which no handler of the server touches
host == <<windows, instances, lockFile, servers, signalled, fresh, event>>

\* the server, which no step of an extension window touches
core == <<store, pendingWaiting, timers, conn, msgs, now, req, resp, prev, window, life>>

\* the hook script and the view's sort, which run outside both
tools == <<hook, sorting, probe, client>>

vars == <<core, steps, host, tools>>

----------------------------------------------------------------------------
(* Bounds of the model *)

MaxSteps == 4

----------------------------------------------------------------------------
(* Program constants *)

WAITING_DEBOUNCE_MS == 3000
STALE_TIMEOUT_MS == 86400000
VALID_STATUSES == {"running", "waiting_for_user", "idle", "error"}

----------------------------------------------------------------------------
(* JSON values of a request body, tagged with their JavaScript typeof. A   *)
(* field that is missing from the body reads as undefined.                 *)

Undefined == [t |-> "undefined", s |-> "", n |-> 0]
JNull     == [t |-> "null",      s |-> "", n |-> 0]
JStr(x)   == [t |-> "string",    s |-> x,  n |-> 0]
JNum(x)   == [t |-> "number",    s |-> "", n |-> x]

\* JavaScript truthiness (!!v)
Truthy(v) ==
  CASE v.t = "string" -> v.s # ""
    [] v.t = "number" -> v.n # 0
    [] OTHER          -> FALSE

\* v && typeof v === "string"
IsNonEmptyString(v) == Truthy(v) /\ v.t = "string"

\* v && typeof v === "number"
IsTruthyNumber(v) == Truthy(v) /\ v.t = "number"

EmptyObj == [k \in {} |-> 0]

----------------------------------------------------------------------------
(* The registry: a JavaScript Map, kept as the sequence of its values in   *)
(* insertion order (each value carries its key, agentId).                  *)

Keys(st) == {st[i].agentId : i \in 1..Len(st)}

Has(st, id) == id \in Keys(st)

IndexOf(st, id) == CHOOSE i \in 1..Len(st) : st[i].agentId = id

Get(st, id) == st[IndexOf(st, id)]

\* (mutant of MapSet: the record is added whether or not the key exists)
MapAppend(st, id, rec) == Append(st, rec)

\* Map.prototype.set: an existing key keeps its position, a new key goes last
MapSet(st, id, rec) ==
  IF Has(st, id) THEN [st EXCEPT ![IndexOf(st, id)] = rec] ELSE Append(st, rec)

\* (mutant of MapDelete: the Map is cleared)
MapDeleteAll(st, id) == <<>>

\* Map.prototype.delete
MapDelete(st, id) == SelectSeq(st, LAMBDA r : r.agentId # id)

HasPid(r)   == "pid" \in DOMAIN r
HasLabel(r) == "label" \in DOMAIN r

WithoutLabel(r) == [k \in (DOMAIN r) \ {"label"} |-> r[k]]

----------------------------------------------------------------------------
(* Wire messages (type WsMessage). JSON.stringify copies the record at the *)
(* time of the call, so a payload is the value the record had then.        *)

Snapshot(st)        == [type |-> "snapshot", data |-> st]
StatusUpdate(r)     == [type |-> "status_update", data |-> r]
AgentRemoved(id)    == [type |-> "agent_removed", data |-> [agentId |-> id]]
FocusRequest(d)     == [type |-> "focus_request", data |-> d]

\* (mutant of Broadcast: connection o2 is sent the messages of one handler
\* last first)
BroadcastReversedToOne(c, m, ms) ==
  [o \in DOMAIN m |->
     IF c[o] # "OPEN" THEN m[o]
     ELSE IF o = "o2" THEN m[o] \o [i \in 1..Len(ms) |-> ms[Len(ms) + 1 - i]]
     ELSE m[o] \o ms]

\* (mutant of Broadcast: a connection that is closing makes the loop give up)
BroadcastUnlessClosing(c, m, ms) ==
  [o \in DOMAIN m |->
     IF c[o] = "OPEN" /\ \A p \in DOMAIN c : c[p] # "CLOSING" THEN m[o] \o ms ELSE m[o]]

\* broadcast(message) for each message of ms in turn: sent on every
\* connection of wss.clients whose readyState is OPEN
Broadcast(c, m, ms) == [o \in DOMAIN m |-> IF c[o] = "OPEN" THEN m[o] \o ms ELSE m[o]]

----------------------------------------------------------------------------
(* Debounce timers: setTimeout / clearTimeout on the event loop            *)

UsedHandles(tm, pw) == {t.h : t \in tm} \cup {pw[id] : id \in DOMAIN pw}

FreshHandle(tm, pw) ==
  CHOOSE h \in 1..(Cardinality(UsedHandles(tm, pw)) + 1) :
    /\ h \notin UsedHandles(tm, pw)
    /\ \A g \in 1..(h - 1) : g \in UsedHandles(tm, pw)

\* (mutant of ClearTimers: clearTimeout left out)
ClearNoTimers(tm, pw, ids) == tm

\* const p = pendingWaiting.get(id); if (p) clearTimeout(p), for each id of ids
ClearTimers(tm, pw, ids) ==
  {t \in tm : ~(\E id \in ids \cap DOMAIN pw : pw[id] = t.h)}

\* (mutant of DropPending: pendingWaiting.delete left out)
DropNoPending(pw, ids) == pw

\* pendingWaiting.delete(id), for each id of ids
DropPending(pw, ids) == [id \in (DOMAIN pw) \ ids |-> pw[id]]

\* pendingWaiting.set(id, h)
SetPending(pw, id, h) == [k \in (DOMAIN pw) \cup {id} |-> IF k = id THEN h ELSE pw[k]]

----------------------------------------------------------------------------
(* The request last handled and the response to it                         *)

NoBody == [agentId |-> Undefined, status |-> Undefined, projectName |-> Undefined,
           client |-> Undefined, cwd |-> Undefined, pid |-> Undefined,
           label |-> Undefined]

Request(op, id, body) == [op |-> op, id |-> id, body |-> body]

Ok200 == [code |-> 200, error |-> "", data |-> <<>>]

Err(code, text) == [code |-> code, error |-> text, data |-> <<>>]

\* { error: "Missing or invalid field: <field>" }
Invalid(field) == "Missing or invalid field: " \o field

NoResponse == [code |-> 0, error |-> "", data |-> <<>>]

Before ==
  [store |-> store, pendingWaiting |-> pendingWaiting, timers |-> timers, msgs |-> msgs,
   window |-> window, req |-> req, resp |-> resp]

\* the history kept for agent id when a waiting_for_user report for it is accepted
\* (m: the streams before the handler sent anything): an observer's mark stays
\* where an earlier report of the same pending period put it
\*   from[o]  length of o's stream when the pending period began
\*   at[o]    length of o's stream at the first report of the period that found o
\*            connected, -1 if none did
\*   reports  the number of waiting_for_user reports accepted in the period
\*   first    Date.now() at the first of them
\*   accepted the record the last of them stored (added where the report is
\*            accepted)
Marked(w, id, c, m) ==
  [from |-> [o \in DOMAIN m |-> IF id \in DOMAIN w THEN w[id].from[o] ELSE Len(m[o])],
   at |-> [o \in DOMAIN m |->
             IF id \in DOMAIN w /\ w[id].at[o] >= 0 THEN w[id].at[o]
             ELSE IF c[o] = "OPEN" THEN Len(m[o]) ELSE -1],
   patched |-> id \in DOMAIN w /\ w[id].patched,
   reports |-> IF id \in DOMAIN w THEN w[id].reports + 1 ELSE 1,
   first |-> IF id \in DOMAIN w THEN w[id].first ELSE now]

----------------------------------------------------------------------------
(* POST /api/status                                                        *)

\* (mutant of PostError: status is validated before agentId)
PostErrorStatusFirst(body) ==
  IF ~(Truthy(body.status) /\ body.status.t = "string"
       /\ body.status.s \in VALID_STATUSES) THEN "status"
  ELSE IF ~IsNonEmptyString(body.agentId) THEN "agentId"
  ELSE IF ~IsNonEmptyString(body.projectName) THEN "projectName"
  ELSE ""

\* the field the validation rejects first, "" when the report is accepted
PostError(body) ==
  IF ~IsNonEmptyString(body.agentId) THEN "agentId"
  ELSE IF ~(Truthy(body.status) /\ body.status.t = "string"
            /\ body.status.s \in VALID_STATUSES) THEN "status"
  ELSE IF ~IsNonEmptyString(body.projectName) THEN "projectName"
  ELSE ""

\* (mutant of NewLabel: the existing label is not carried over)
NewLabelOfBodyOnly(body, st) ==
  IF body.label.t = "string" /\ body.label.s # "" THEN body.label.s ELSE ""

\* the label of the new entry, "" for none (undefined and "" are both falsy)
NewLabel(body, st) ==
  IF body.label.t # "undefined"
    THEN IF body.label.t = "string" /\ body.label.s # "" THEN body.label.s ELSE ""
    ELSE IF Has(st, body.agentId.s) /\ HasLabel(Get(st, body.agentId.s))
           THEN Get(st, body.agentId.s).label
           ELSE ""

\* const entry: AgentStatus = { ... }
\* (mutant of NewEntry: a record that exists keeps its timestamp)
NewEntryKeepingTime(body, st, t) ==
  [agentId |-> body.agentId.s, status |-> body.status.s,
   projectName |-> body.projectName.s,
   timestamp |-> IF Has(st, body.agentId.s) THEN Get(st, body.agentId.s).timestamp ELSE t]
  @@ (IF IsNonEmptyString(body.client) THEN [client |-> body.client.s] ELSE EmptyObj)
  @@ (IF IsNonEmptyString(body.cwd) THEN [cwd |-> body.cwd.s] ELSE EmptyObj)
  @@ (IF IsTruthyNumber(body.pid) THEN [pid |-> body.pid.n] ELSE EmptyObj)
  @@ (IF NewLabel(body, st) # "" THEN [label |-> NewLabel(body, st)] ELSE EmptyObj)

\* (mutant of NewEntry: the optional fields the report lacks are taken over
\* from the previous record)
NewEntryMerging(body, st, t) ==
  LET id == body.agentId.s
      old == IF Has(st, id) THEN Get(st, id) ELSE EmptyObj
  IN  [agentId |-> id, status |-> body.status.s,
       projectName |-> body.projectName.s, timestamp |-> t]
      @@ (IF IsNonEmptyString(body.client) THEN [client |-> body.client.s] ELSE EmptyObj)
      @@ (IF IsNonEmptyString(body.cwd) THEN [cwd |-> body.cwd.s] ELSE EmptyObj)
      @@ (IF IsTruthyNumber(body.pid) THEN [pid |-> body.pid.n] ELSE EmptyObj)
      @@ (IF NewLabel(body, st) # "" THEN [label |-> NewLabel(body, st)] ELSE EmptyObj)
      @@ old

NewEntry(body, st, t) ==
  [agentId |-> body.agentId.s, status |-> body.status.s,
   projectName |-> body.projectName.s, timestamp |-> t]
  @@ (IF IsNonEmptyString(body.client) THEN [client |-> body.client.s] ELSE EmptyObj)
  @@ (IF IsNonEmptyString(body.cwd) THEN [cwd |-> body.cwd.s] ELSE EmptyObj)
  @@ (IF IsTruthyNumber(body.pid) THEN [pid |-> body.pid.n] ELSE EmptyObj)
  @@ (IF NewLabel(body, st) # "" THEN [label |-> NewLabel(body, st)] ELSE EmptyObj)

\* (mutant of Victims: the `if (entry.pid)` guard left out, so that a report
\* without pid matches the records without pid)
VictimsUnguarded(st, entry) ==
  SelectSeq(st, LAMBDA r : /\ r.agentId # entry.agentId
                           /\ HasPid(r) = HasPid(entry)
                           /\ HasPid(r) => r.pid = entry.pid)

\* (mutant of Victims: the eviction loop left out)
NoVictims(st, entry) == <<>>

\* the other sessions sharing the entry's pid, in the order the loop meets them
Victims(st, entry) ==
  IF HasPid(entry)
    THEN SelectSeq(st, LAMBDA r : r.agentId # entry.agentId /\ HasPid(r) /\ r.pid = entry.pid)
    ELSE <<>>

VictimIds(st, entry) == Keys(Victims(st, entry))

\* store after the eviction loop and store.set(agentId, entry)
StoreAfterPost(st, entry) ==
  MapSet(SelectSeq(st, LAMBDA r : r.agentId \notin VictimIds(st, entry)),
         entry.agentId, entry)

\* (mutant of TimersCancelledByPost: the report's own pending timer is not cleared)
OnlyVictimTimersCancelled(tm, pw, st, entry) ==
  ClearTimers(tm, pw, VictimIds(st, entry))

\* the timers the report cancels: those of the evicted sessions and its own
TimersCancelledByPost(tm, pw, st, entry) ==
  ClearTimers(tm, pw, VictimIds(st, entry) \cup {entry.agentId})

\* (mutant of PostMessages: waiting_for_user announced at once, not debounced)
PostMessagesNoDebounce(st, entry) ==
  [i \in 1..Len(Victims(st, entry)) |-> AgentRemoved(Victims(st, entry)[i].agentId)]
  \o <<StatusUpdate(entry)>>

\* (mutant of PostMessages: the status_update announced before the evictions)
PostMessagesUpdateFirst(st, entry) ==
  (IF entry.status = "waiting_for_user" THEN <<>> ELSE <<StatusUpdate(entry)>>)
  \o [i \in 1..Len(Victims(st, entry)) |-> AgentRemoved(Victims(st, entry)[i].agentId)]

\* what the report broadcasts: agent_removed per victim, then its status_update
\* unless the status is waiting_for_user
PostMessages(st, entry) ==
  [i \in 1..Len(Victims(st, entry)) |-> AgentRemoved(Victims(st, entry)[i].agentId)]
  \o (IF entry.status = "waiting_for_user" THEN <<>> ELSE <<StatusUpdate(entry)>>)

PostAccepted(body) ==
  LET entry == NewEntry(body, store, now)
      id    == entry.agentId
      tm1   == TimersCancelledByPost(timers, pendingWaiting, store, entry)
      pw1   == DropPending(pendingWaiting, VictimIds(store, entry) \cup {id})
      h     == FreshHandle(tm1, pw1)
  IN /\ store' = StoreAfterPost(store, entry)
     /\ msgs' = Broadcast(conn, msgs, PostMessages(store, entry))
     /\ IF entry.status = "waiting_for_user"
          THEN /\ timers' = tm1 \cup {[h |-> h, agentId |-> id, due |-> now + WAITING_DEBOUNCE_MS]}
               /\ pendingWaiting' = SetPending(pw1, id, h)
               /\ window' = SetPending(DropPending(window, VictimIds(store, entry)), id,
                                       Marked(window, id, conn, msgs)
                                         @@ [accepted |-> entry])
          ELSE /\ timers' = tm1
               /\ pendingWaiting' = pw1
               /\ window' = DropPending(window, VictimIds(store, entry) \cup {id})
     /\ resp' = Ok200

PostStatus(body) ==
  /\ req' = Request("post", "", body)
  /\ prev' = Before
  /\ UNCHANGED <<life, host, tools>>
  /\ IF PostError(body) # ""
       THEN /\ resp' = Err(400, Invalid(PostError(body)))
            /\ UNCHANGED <<store, pendingWaiting, timers, msgs, window>>
       ELSE PostAccepted(body)
  /\ UNCHANGED <<conn, now>>

----------------------------------------------------------------------------
(* GET /api/status: Array.from(store.values())                             *)

GetStatus ==
  /\ req' = Request("get", "", NoBody)
  /\ prev' = Before
  /\ UNCHANGED <<life, host, tools>>
  /\ resp' = [code |-> 200, error |-> "", data |-> store]
  /\ UNCHANGED <<store, pendingWaiting, timers, conn, msgs, now, window>>

----------------------------------------------------------------------------
(* DELETE /api/status/:agentId                                             *)

\* (mutant of DeleteStatus: the store.has check left out)
DeleteStatusUnchecked(id) ==
  /\ req' = Request("delete", id, NoBody)
  /\ prev' = Before
  /\ UNCHANGED <<life, host, tools>>
  /\ store' = MapDelete(store, id)
  /\ window' = DropPending(window, {id})
  /\ timers' = ClearTimers(timers, pendingWaiting, {id})
  /\ pendingWaiting' = DropPending(pendingWaiting, {id})
  /\ msgs' = Broadcast(conn, msgs, <<AgentRemoved(id)>>)
  /\ resp' = Ok200
  /\ UNCHANGED <<conn, now>>

DeleteStatus(id) ==
  /\ req' = Request("delete", id, NoBody)
  /\ prev' = Before
  /\ UNCHANGED <<life, host, tools>>
  /\ IF ~Has(store, id)
       THEN /\ resp' = Err(404, "Agent not found")
            /\ UNCHANGED <<store, pendingWaiting, timers, msgs, window>>
       ELSE /\ store' = MapDelete(store, id)
            /\ window' = DropPending(window, {id})
            /\ timers' = ClearTimers(timers, pendingWaiting, {id})
            /\ pendingWaiting' = DropPending(pendingWaiting, {id})
            /\ msgs' = Broadcast(conn, msgs, <<AgentRemoved(id)>>)
            /\ resp' = Ok200
  /\ UNCHANGED <<conn, now>>

----------------------------------------------------------------------------
(* PATCH /api/status/:agentId/label                                        *)

\* (mutant of Relabel: the patch refreshes the timestamp as a report does)
RelabelTouching(r, label) ==
  [timestamp |-> now]
  @@ (IF label = "" THEN WithoutLabel(r) ELSE [label |-> label] @@ r)

\* delete agent.label, or agent.label = label: the record is changed in place
Relabel(r, label) ==
  IF label = "" THEN WithoutLabel(r) ELSE [label |-> label] @@ r

\* (mutant of PatchLabel: the label is validated before the agent is looked up)
PatchLabelTypeFirst(id, body) ==
  /\ req' = Request("patch", id, body)
  /\ prev' = Before
  /\ UNCHANGED <<life, host, tools>>
  /\ IF body.label.t # "string"
       THEN /\ resp' = Err(400, Invalid("label"))
            /\ UNCHANGED <<store, msgs, window>>
       ELSE IF ~Has(store, id)
         THEN /\ resp' = Err(404, "Agent not found")
              /\ UNCHANGED <<store, msgs, window>>
         ELSE /\ store' = MapSet(store, id, Relabel(Get(store, id), body.label.s))
              /\ window' = [k \in DOMAIN window |->
                              IF k = id THEN [window[k] EXCEPT !.patched = TRUE]
                              ELSE window[k]]
              /\ msgs' = Broadcast(conn, msgs,
                                   <<StatusUpdate(Relabel(Get(store, id), body.label.s))>>)
              /\ resp' = Ok200
  /\ UNCHANGED <<pendingWaiting, timers, conn, now>>

\* (mutant of PatchLabel: while the agent's debounce is pending the patch is
\* not announced)
PatchLabelQuietWhilePending(id, body) ==
  /\ req' = Request("patch", id, body)
  /\ prev' = Before
  /\ UNCHANGED <<life, host, tools>>
  /\ IF ~Has(store, id)
       THEN /\ resp' = Err(404, "Agent not found")
            /\ UNCHANGED <<store, msgs, window>>
       ELSE IF body.label.t # "string"
         THEN /\ resp' = Err(400, Invalid("label"))
              /\ UNCHANGED <<store, msgs, window>>
         ELSE /\ store' = MapSet(store, id, Relabel(Get(store, id), body.label.s))
              /\ window' = window
              /\ msgs' = IF id \in DOMAIN pendingWaiting
                           THEN msgs
                           ELSE Broadcast(conn, msgs,
                                  <<StatusUpdate(Relabel(Get(store, id), body.label.s))>>)
              /\ resp' = Ok200
  /\ UNCHANGED <<pendingWaiting, timers, conn, now>>

PatchLabel(id, body) ==
  /\ req' = Request("patch", id, body)
  /\ prev' = Before
  /\ UNCHANGED <<life, host, tools>>
  /\ IF ~Has(store, id)
       THEN /\ resp' = Err(404, "Agent not found")
            /\ UNCHANGED <<store, msgs, window>>
       ELSE IF body.label.t # "string"
         THEN /\ resp' = Err(400, Invalid("label"))
              /\ UNCHANGED <<store, msgs, window>>
         ELSE /\ store' = MapSet(store, id, Relabel(Get(store, id), body.label.s))
              /\ window' = [k \in DOMAIN window |->
                              IF k = id THEN [window[k] EXCEPT !.patched = TRUE]
                              ELSE window[k]]
              /\ msgs' = Broadcast(conn, msgs,
                                   <<StatusUpdate(Relabel(Get(store, id), body.label.s))>>)
              /\ resp' = Ok200
  /\ UNCHANGED <<pendingWaiting, timers, conn, now>>

----------------------------------------------------------------------------
(* The debounce timer's callback (the arrow function given to setTimeout)  *)

\* what the callback broadcasts for agent id
FireMessages(st, id) ==
  IF Has(st, id) /\ Get(st, id).status = "waiting_for_user"
    THEN <<StatusUpdate(Get(st, id))>>
    ELSE <<>>

\* (mutant of TimerFire: the callback announces the record the report stored,
\* not the registry's record at fire time)
TimerFireAsAccepted(t) ==
  /\ t \in timers
  /\ \A u \in timers : t.due <= u.due
  /\ now' = (IF now < t.due THEN t.due ELSE now)
  /\ req' = Request("timer", t.agentId, NoBody)
  /\ prev' = Before
  /\ UNCHANGED <<life, host, tools>>
  /\ timers' = timers \ {t}
  /\ pendingWaiting' = DropPending(pendingWaiting, {t.agentId})
  /\ window' = DropPending(window, {t.agentId})
  /\ msgs' = Broadcast(conn, msgs, <<StatusUpdate(window[t.agentId].accepted)>>)
  /\ resp' = NoResponse
  /\ UNCHANGED <<store, conn>>

\* The event loop runs the callback of a timer once its delay has elapsed, the
\* earliest due first: the clock has reached t.due by then.
TimerFire(t) ==
  /\ t \in timers
  /\ \A u \in timers : t.due <= u.due
  /\ now' = (IF now < t.due THEN t.due ELSE now)
  /\ req' = Request("timer", t.agentId, NoBody)
  /\ prev' = Before
  /\ UNCHANGED <<life, host, tools>>
  /\ timers' = timers \ {t}
  /\ pendingWaiting' = DropPending(pendingWaiting, {t.agentId})
  /\ window' = DropPending(window, {t.agentId})
  /\ msgs' = Broadcast(conn, msgs, FireMessages(store, t.agentId))
  /\ resp' = NoResponse
  /\ UNCHANGED <<store, conn>>

----------------------------------------------------------------------------
(* runCleanup: the reaper sweep.  alive is the set of pids for which       *)
(* process.kill(pid, 0) does not throw during the sweep.                   *)

\* (mutant of IsStale: the liveness probe left out, age decides for every record)
IsStaleByAge(r, alive, t) == t - r.timestamp > STALE_TIMEOUT_MS

\* (mutant of IsStale: the age test is >= instead of >)
IsStaleAtThreshold(r, alive, t) ==
  IF HasPid(r) THEN r.pid \notin alive ELSE t - r.timestamp >= STALE_TIMEOUT_MS

IsStale(r, alive, t) ==
  IF HasPid(r) THEN r.pid \notin alive ELSE t - r.timestamp > STALE_TIMEOUT_MS

StaleIds(st, alive, t) == {st[i].agentId : i \in {j \in 1..Len(st) : IsStale(st[j], alive, t)}}

\* (mutant of CleanupMessages: the sweep removes without announcing)
CleanupMessagesSilent(st, alive, t) == <<>>

CleanupMessages(st, alive, t) ==
  LET stale == SelectSeq(st, LAMBDA r : IsStale(r, alive, t))
  IN [i \in 1..Len(stale) |-> AgentRemoved(stale[i].agentId)]

RunCleanup(alive) ==
  /\ req' = [op |-> "cleanup", id |-> "", body |-> NoBody, alive |-> alive]
  /\ prev' = Before
  /\ UNCHANGED <<life, host, tools>>
  /\ store' = SelectSeq(store, LAMBDA r : ~IsStale(r, alive, now))
  /\ timers' = ClearTimers(timers, pendingWaiting, StaleIds(store, alive, now))
  /\ pendingWaiting' = DropPending(pendingWaiting, StaleIds(store, alive, now))
  /\ window' = DropPending(window, StaleIds(store, alive, now))
  /\ msgs' = Broadcast(conn, msgs, CleanupMessages(store, alive, now))
  /\ resp' = NoResponse
  /\ UNCHANGED <<conn, now>>

----------------------------------------------------------------------------
(* The WebSocket hub                                                       *)

\* (mutant of Connect: the socket joins wss.clients but is sent no snapshot)
ConnectWithoutSnapshot(o) ==
  /\ conn[o] = "new"
  /\ req' = Request("connect", o, NoBody)
  /\ prev' = Before
  /\ UNCHANGED <<life, host, tools>>
  /\ conn' = [conn EXCEPT ![o] = "OPEN"]
  /\ resp' = NoResponse
  /\ UNCHANGED <<store, pendingWaiting, timers, msgs, now, window>>

\* wss.on("connection"): a new socket joins wss.clients and is sent the snapshot
Connect(o) ==
  /\ conn[o] = "new"
  /\ req' = Request("connect", o, NoBody)
  /\ prev' = Before
  /\ UNCHANGED <<life, host, tools>>
  /\ conn' = [conn EXCEPT ![o] = "OPEN"]
  /\ msgs' = [msgs EXCEPT ![o] = Append(msgs[o], Snapshot(store))]
  /\ resp' = NoResponse
  /\ UNCHANGED <<store, pendingWaiting, timers, now, window>>

\* the peer starts the closing handshake: readyState becomes CLOSING
BeginClose(o) ==
  /\ conn[o] = "OPEN"
  /\ req' = Request("closing", o, NoBody)
  /\ prev' = Before
  /\ UNCHANGED <<life, host, tools>>
  /\ conn' = [conn EXCEPT ![o] = "CLOSING"]
  /\ resp' = NoResponse
  /\ UNCHANGED <<store, pendingWaiting, timers, msgs, now, window>>

\* the socket is closed and leaves wss.clients
FinishClose(o) ==
  /\ conn[o] = "CLOSING"
  /\ req' = Request("closed", o, NoBody)
  /\ prev' = Before
  /\ UNCHANGED <<life, host, tools>>
  /\ conn' = [conn EXCEPT ![o] = "CLOSED"]
  /\ resp' = NoResponse
  /\ UNCHANGED <<store, pendingWaiting, timers, msgs, now, window>>

----------------------------------------------------------------------------
(* shutdown.  wss.close() and server.close() stop both servers accepting   *)
(* connections.  Whether WebSocketServer.close() also ends the connections *)
(* that exist depends on the release of the ws package the build resolves: *)
(* up to 7 it terminates every client, from 8 on it leaves them open; the  *)
(* parameter terminates is that choice.                                    *)

\* (mutant of Shutdown: the debounce timers are not cleared)
ShutdownKeepingTimers(terminates) ==
  /\ listening
  /\ req' = Request("shutdown", "", NoBody)
  /\ prev' = Before
  /\ cleanupInterval' = FALSE
  /\ listening' = FALSE
  /\ conn' = [o \in DOMAIN conn |->
                IF terminates /\ conn[o] \in {"OPEN", "CLOSING"} THEN "CLOSED" ELSE conn[o]]
  /\ resp' = NoResponse
  /\ UNCHANGED <<store, msgs, now, timers, pendingWaiting, window, host, tools>>

Shutdown(terminates) ==
  /\ listening
  /\ req' = Request("shutdown", "", NoBody)
  /\ prev' = Before
  /\ cleanupInterval' = FALSE
  /\ timers' = ClearTimers(timers, pendingWaiting, DOMAIN pendingWaiting)
  /\ pendingWaiting' = EmptyObj
  /\ window' = EmptyObj
  /\ listening' = FALSE
  /\ conn' = [o \in DOMAIN conn |->
                IF terminates /\ conn[o] \in {"OPEN", "CLOSING"} THEN "CLOSED" ELSE conn[o]]
  /\ resp' = NoResponse
  /\ UNCHANGED <<store, msgs, now, host, tools>>

\* a request or an upgrade reaches its handler only while the servers accept
\* connections
Accepting(A) == listening /\ A

\* setInterval(runCleanup, cleanupIntervalMs): the sweep runs while the
\* interval is scheduled
IntervalElapsed(alive) == cleanupInterval /\ RunCleanup(alive)

----------------------------------------------------------------------------
(* The clock                                                               *)

Tick(d) ==
  /\ now' = now + d
  /\ req' = Request("tick", "", NoBody)
  /\ prev' = Before
  /\ UNCHANGED <<life, host, tools>>
  /\ resp' = NoResponse
  /\ UNCHANGED <<store, pendingWaiting, timers, conn, msgs, window>>

----------------------------------------------------------------------------
(* ws.on("message"): raw is the frame the observer sent; json is FALSE     *)
(* when JSON.parse throws on it.                                           *)

Frame(json, type, agentId) == [json |-> json, type |-> type, agentId |-> agentId]

\* (mutant of IsFocusRequest: the typeof msg.agentId check left out)
IsFocusRequestUntyped(raw) ==
  /\ raw.json
  /\ raw.type = JStr("focus_request")

IsFocusRequest(raw) ==
  /\ raw.json
  /\ raw.type = JStr("focus_request")
  /\ raw.agentId.t = "string"

\* (mutant of Enriched: the request is passed on as it came)
EnrichedBare(st, id) == [agentId |-> id]

\* { agentId, ...(agent?.pid ? { pid } : {}), ...(agent?.cwd ? { cwd } : {}) }
Enriched(st, id) ==
  [agentId |-> id]
  @@ (IF Has(st, id) /\ HasPid(Get(st, id)) THEN [pid |-> Get(st, id).pid] ELSE EmptyObj)
  @@ (IF Has(st, id) /\ "cwd" \in DOMAIN Get(st, id) THEN [cwd |-> Get(st, id).cwd] ELSE EmptyObj)

ClientMessage(o, raw) ==
  /\ conn[o] = "OPEN"
  /\ req' = [op |-> "message", id |-> o, body |-> NoBody, raw |-> raw]
  /\ prev' = Before
  /\ UNCHANGED <<life, host, tools>>
  /\ msgs' = IF IsFocusRequest(raw)
               THEN Broadcast(conn, msgs, <<FocusRequest(Enriched(store, raw.agentId.s))>>)
               ELSE msgs
  /\ resp' = NoResponse
  /\ UNCHANGED <<store, pendingWaiting, timers, conn, now, window>>

----------------------------------------------------------------------------
(* observer-clients/vscode: server-manager.ts and the calls extension.ts   *)
(* makes into it.  A window is one extension host process; a spawned       *)
(* server is listening and has written its lock file by the time           *)
(* waitForServer returns.                                                  *)

Windows == {"w1", "w2"}

\* instanceId 0: undefined; uses 0: no server found yet
NoWindow == [state |-> "off", instanceId |-> 0, uses |-> 0]

NoEvent == [op |-> "init", w |-> "", killed |-> 0, spawned |-> 0]

\* readLockFile() && isServerRunning(lock)
LockedAndRunning == lockFile # 0 /\ lockFile \in servers

\* ensureServer, startServer, registerInstance, waitForServer, for window w
\* that is to be in state st afterwards
EnsureServer(w, st, op) ==
  IF LockedAndRunning
    THEN /\ windows' = [windows EXCEPT ![w] = [@ EXCEPT !.state = st, !.uses = lockFile]]
         /\ event' = [op |-> op, w |-> w, killed |-> 0, spawned |-> 0]
         /\ UNCHANGED <<instances, lockFile, servers, signalled, fresh>>
    ELSE /\ servers' = servers \cup {fresh + 1}
         /\ lockFile' = fresh + 1
         /\ instances' = instances \cup {fresh + 2}
         /\ windows' = [windows EXCEPT ![w] =
                          [state |-> st, instanceId |-> fresh + 2, uses |-> fresh + 1]]
         /\ fresh' = fresh + 2
         /\ event' = [op |-> op, w |-> w, killed |-> 0, spawned |-> fresh + 1]
         /\ UNCHANGED signalled

\* activate(): let port = await ensureServer()
Activate(w) ==
  /\ windows[w].state = "off"
  /\ EnsureServer(w, "active", "activate")
  /\ UNCHANGED <<core, tools>>

\* the healthCheck interval of extension.ts
HealthCheck(w) ==
  /\ windows[w].state = "active"
  /\ IF LockedAndRunning
       THEN /\ event' = [op |-> "health", w |-> w, killed |-> 0, spawned |-> 0]
            /\ UNCHANGED <<windows, instances, lockFile, servers, signalled, fresh>>
       ELSE EnsureServer(w, "active", "health")
  /\ UNCHANGED <<core, tools>>

\* unregisterInstance
Unregistered(w) == IF windows[w].instanceId # 0 THEN instances \ {windows[w].instanceId}
                   ELSE instances

\* the pid stopServerIfLast signals for window w, 0 for none
Killed(w) ==
  IF Cardinality(Unregistered(w)) > 0 THEN 0
  ELSE IF LockedAndRunning THEN lockFile
  ELSE 0

\* the window is disposed and deactivate() runs: stopServerIfLast, twice, the
\* second call finding instanceId undefined and the same instance count
Deactivate(w) ==
  /\ windows[w].state = "active"
  /\ instances' = Unregistered(w)
  /\ windows' = [windows EXCEPT ![w] = [@ EXCEPT !.state = "gone", !.instanceId = 0]]
  /\ signalled' = IF Killed(w) # 0 THEN signalled \cup {Killed(w)} ELSE signalled
  /\ event' = [op |-> "deactivate", w |-> w, killed |-> Killed(w), spawned |-> 0]
  /\ UNCHANGED <<lockFile, servers, fresh>>
  /\ UNCHANGED <<core, tools>>

\* index.ts, on SIGTERM: shutdown() removes the lock file, process.exit(0)
ServerTerminates(p) ==
  /\ p \in servers
  /\ p \in signalled
  /\ servers' = servers \ {p}
  /\ lockFile' = 0
  /\ event' = [op |-> "exit", w |-> "", killed |-> 0, spawned |-> 0]
  /\ UNCHANGED <<windows, instances, signalled, fresh>>
  /\ UNCHANGED <<core, tools>>

\* the server process dies without running its handlers; the lock file stays
ServerCrash(p) ==
  /\ p \in servers
  /\ servers' = servers \ {p}
  /\ event' = [op |-> "crash", w |-> "", killed |-> 0, spawned |-> 0]
  /\ UNCHANGED <<windows, instances, lockFile, signalled, fresh>>
  /\ UNCHANGED <<core, tools>>

----------------------------------------------------------------------------
(* Inputs                                                                  *)

AgentIds  == {"a1", "a2"}
Observers == {"o1", "o2"}
Pids      == {7}
Deltas    == {STALE_TIMEOUT_MS + 1}

Body(a, s, p, c, w, pid, l) ==
  [agentId |-> a, status |-> s, projectName |-> p, client |-> c, cwd |-> w,
   pid |-> pid, label |-> l]

\* well-formed reports that carry no label
CoreBodies ==
  {Body(JStr(a), JStr(s), JStr("proj"), Undefined, Undefined, pid, Undefined) :
     a \in AgentIds, s \in {"running", "waiting_for_user"},
     pid \in {Undefined, JNum(7)}}

LabelBodies == {[NoBody EXCEPT !.label = JStr("L")]}

Frames == {Frame(TRUE, JStr("focus_request"), JStr("a1"))}

----------------------------------------------------------------------------
(* The server after createApp()                                            *)

Boot ==
  /\ store = <<>>
  /\ pendingWaiting = EmptyObj
  /\ timers = {}
  /\ conn = [o \in Observers |-> "new"]
  /\ msgs = [o \in Observers |-> <<>>]
  /\ now = 0
  /\ req = Request("init", "", NoBody)
  /\ resp = NoResponse
  /\ prev = [store |-> <<>>, pendingWaiting |-> EmptyObj, timers |-> {},
             msgs |-> [o \in Observers |-> <<>>], window |-> EmptyObj,
             req |-> Request("init", "", NoBody), resp |-> NoResponse]
  /\ window = EmptyObj
  /\ steps = 0
  /\ listening = TRUE
  /\ cleanupInterval = TRUE
  /\ windows = [w \in Windows |-> NoWindow]
  /\ instances = {}
  /\ lockFile = 0
  /\ servers = {}
  /\ signalled = {}
  /\ fresh = 0
  /\ event = NoEvent
  /\ client = NewClient

Init ==
  /\ Boot
  /\ hook = NoHook
  /\ sorting = NoSorting
  /\ probe = NoProbe

\* one event handled, counted against the bound
Step(A) ==
  /\ steps < MaxSteps
  /\ steps' = steps + 1
  /\ A

Next ==
  \/ \E body \in CoreBodies : Step(PostStatus(body))
  \/ \E id \in AgentIds : Step(DeleteStatus(id))
  \/ \E id \in AgentIds, body \in LabelBodies : Step(PatchLabel(id, body))
  \/ \E t \in timers : Step(TimerFire(t))
  \/ \E alive \in SUBSET Pids : Step(RunCleanup(alive))
  \/ \E o \in Observers : Step(Connect(o))
  \/ \E o \in Observers, raw \in Frames : Step(ClientMessage(o, raw))
  \/ \E d \in Deltas : Step(Tick(d))

Spec == Init /\ [][Next]_vars

-----------------------------------------------------------------------------
(* The label of one agent: reports with every kind of label field, label   *)
(* patches, removal                                                        *)

LabelObservers == {"o1"}

\* the label field of a report: absent, "", a string, null, a number
ReportLabels == {Undefined, JStr(""), JStr("L"), JNull, JNum(3)}

LabelReports ==
  {Body(JStr("a1"), JStr("running"), JStr("proj"), Undefined, Undefined, Undefined, l) :
     l \in ReportLabels}
  \cup {Body(JStr("a1"), JStr("waiting_for_user"), JStr("proj"), Undefined, Undefined,
             Undefined, Undefined)}

\* the label field of a label patch
PatchBodies ==
  {[NoBody EXCEPT !.label = l] : l \in {JStr(""), JStr("L"), JStr("M"), JNum(3)}}

NextLabel ==
  \/ \E body \in LabelReports : Step(PostStatus(body))
  \/ \E id \in AgentIds, body \in PatchBodies : Step(PatchLabel(id, body))
  \/ Step(DeleteStatus("a1"))
  \/ \E t \in timers : Step(TimerFire(t))
  \/ \E o \in LabelObservers : Step(Connect(o))

SpecLabel == Init /\ [][NextLabel]_vars

-----------------------------------------------------------------------------
(* The reaper: two processes, records with and without pid, ages at and    *)
(* beyond the fallback timeout                                             *)

ReaperPids == {7, 8}

ReaperDeltas == {STALE_TIMEOUT_MS, STALE_TIMEOUT_MS + 1}

ReaperBodies ==
  {Body(JStr(a), JStr("running"), JStr("proj"), Undefined, Undefined, pid, Undefined) :
     a \in AgentIds, pid \in {Undefined, JNum(7), JNum(8)}}
  \cup {Body(JStr(a), JStr("waiting_for_user"), JStr("proj"), Undefined, Undefined,
             Undefined, Undefined) : a \in AgentIds}

NextReaper ==
  \/ \E body \in ReaperBodies : Step(PostStatus(body))
  \/ \E alive \in SUBSET ReaperPids : Step(RunCleanup(alive))
  \/ \E d \in ReaperDeltas : Step(Tick(d))
  \/ \E t \in timers : Step(TimerFire(t))
  \/ \E o \in LabelObservers : Step(Connect(o))

SpecReaper == Init /\ [][NextReaper]_vars

-----------------------------------------------------------------------------
(* The hub's inbound side: focus requests for a known and an unknown       *)
(* agent, frames the handler drops, connections opening and closing        *)

\* reports for a1 with and without pid and cwd, and one that starts a debounce
FocusBodies ==
  {Body(JStr("a1"), JStr("running"), JStr("proj"), Undefined, w, pid, Undefined) :
     w \in {Undefined, JStr("/w")}, pid \in {Undefined, JNum(7)}}
  \cup {Body(JStr("a1"), JStr("waiting_for_user"), JStr("proj"), Undefined, Undefined,
             Undefined, Undefined)}

FocusFrames == {Frame(TRUE, JStr("focus_request"), JStr(a)) : a \in AgentIds}

\* not JSON; another type; focus_request with agentId missing or a number
BadFrames ==
  {Frame(FALSE, Undefined, Undefined),
   Frame(TRUE, JStr("unknown_type"), JStr("a1")),
   Frame(TRUE, JStr("focus_request"), Undefined),
   Frame(TRUE, JStr("focus_request"), JNum(5))}

NextFocus ==
  \/ \E body \in FocusBodies : Step(PostStatus(body))
  \/ \E o \in Observers, raw \in FocusFrames : Step(ClientMessage(o, raw))
  \/ \E o \in Observers, raw \in BadFrames : Step(ClientMessage(o, raw))
  \/ \E o \in Observers : Step(Connect(o))
  \/ \E o \in Observers : Step(BeginClose(o))
  \/ \E o \in Observers : Step(FinishClose(o))
  \/ \E t \in timers : Step(TimerFire(t))

SpecFocus == Init /\ [][NextFocus]_vars

-----------------------------------------------------------------------------
(* The life of the server: reports, sweeps and connections before and      *)
(* after shutdown                                                          *)

ShutdownBodies ==
  {Body(JStr("a1"), JStr(s), JStr("proj"), Undefined, Undefined, pid, Undefined) :
     s \in {"running", "waiting_for_user"}, pid \in {Undefined, JNum(7)}}

NextShutdown ==
  \/ \E body \in ShutdownBodies : Step(Accepting(PostStatus(body)))
  \/ \E o \in Observers : Step(Accepting(Connect(o)))
  \/ \E t \in timers : Step(TimerFire(t))
  \/ \E alive \in SUBSET Pids : Step(IntervalElapsed(alive))
  \/ \E o \in Observers, raw \in Frames : Step(ClientMessage(o, raw))
  \/ \E terminates \in BOOLEAN : Step(Shutdown(terminates))

SpecShutdown == Init /\ [][NextShutdown]_vars

-----------------------------------------------------------------------------
(* The hub's outbound side: announcements of every kind while observers    *)
(* connect and close at different times                                    *)

HubBodies ==
  {Body(JStr(a), JStr("running"), JStr("proj"), Undefined, Undefined, pid, Undefined) :
     a \in AgentIds, pid \in {Undefined, JNum(7)}}
  \cup {Body(JStr(a), JStr("waiting_for_user"), JStr("proj"), Undefined, Undefined,
             Undefined, Undefined) : a \in AgentIds}

NextHub ==
  \/ \E body \in HubBodies : Step(PostStatus(body))
  \/ \E id \in AgentIds : Step(DeleteStatus(id))
  \/ \E t \in timers : Step(TimerFire(t))
  \/ \E o \in Observers, raw \in Frames : Step(ClientMessage(o, raw))
  \/ \E o \in Observers : Step(Connect(o))
  \/ \E o \in Observers : Step(BeginClose(o))
  \/ \E o \in Observers : Step(FinishClose(o))

SpecHub == Init /\ [][NextHub]_vars

-----------------------------------------------------------------------------
(* The extension windows and the server process they share                 *)

MaxManagerSteps == 6

ManagerStep(A) ==
  /\ steps < MaxManagerSteps
  /\ steps' = steps + 1
  /\ A

NextManager ==
  \/ \E w \in Windows : ManagerStep(Activate(w))
  \/ \E w \in Windows : ManagerStep(HealthCheck(w))
  \/ \E w \in Windows : ManagerStep(Deactivate(w))
  \/ \E p \in servers : ManagerStep(ServerTerminates(p))
  \/ \E p \in servers : ManagerStep(ServerCrash(p))

SpecManager == Init /\ [][NextManager]_vars

-----------------------------------------------------------------------------
(* The REST interface: reports well-formed and malformed, GET              *)

MaxRestSteps == 3

RestStep(A) ==
  /\ steps < MaxRestSteps
  /\ steps' = steps + 1
  /\ A

\* well-formed reports, every status
ValidBodies ==
  {Body(JStr(a), JStr(s), JStr("proj"), Undefined, Undefined, Undefined, Undefined) :
     a \in AgentIds, s \in VALID_STATUSES}

BadAgentIds    == {Undefined, JStr(""), JNum(5)}
BadStatuses    == {Undefined, JStr("bogus")}
BadProjectNames == {Undefined, JStr(""), JNum(2)}

\* malformed reports: one, two or three of the required fields are bad
InvalidBodies ==
  {Body(a, s, p, Undefined, Undefined, Undefined, Undefined) :
     a \in BadAgentIds, s \in {JStr("idle"), JStr("bogus")}, p \in {JStr("proj"), Undefined}}
  \cup {Body(JStr("a1"), s, p, Undefined, Undefined, Undefined, Undefined) :
          s \in BadStatuses, p \in {JStr("proj"), JStr("")}}
  \cup {Body(JStr("a1"), JStr("idle"), p, Undefined, Undefined, Undefined, Undefined) :
          p \in BadProjectNames}

NextRest ==
  \/ \E body \in ValidBodies : RestStep(PostStatus(body))
  \/ \E body \in InvalidBodies : RestStep(PostStatus(body))
  \/ RestStep(GetStatus)
  \/ \E t \in timers : RestStep(TimerFire(t))
  \/ \E o \in LabelObservers : RestStep(Connect(o))

SpecRest == Init /\ [][NextRest]_vars

----------------------------------------------------------------------------
(* Vocabulary of the properties                                            *)

\* equality of two wire messages, the type compared first
SameMsg(a, b) == a.type = b.type /\ a.data = b.data

SameMsgs(x, y) == Len(x) = Len(y) /\ \A i \in 1..Len(x) : SameMsg(x[i], y[i])

\* what the event handled last sent on connection o
Sent(o) == SubSeq(msgs[o], Len(prev.msgs[o]) + 1, Len(msgs[o]))

\* a stream only grows: what was sent stays sent
Extends(o) ==
  /\ Len(prev.msgs[o]) <= Len(msgs[o])
  /\ SameMsgs(SubSeq(msgs[o], 1, Len(prev.msgs[o])), prev.msgs[o])

IsUpdateFor(m, id) == m.type = "status_update" /\ m.data.agentId = id

Accepted == req.op = "post" /\ resp.code = 200

Records(st) == {st[i] : i \in 1..Len(st)}

----------------------------------------------------------------------------
\* C1: in every reachable state no two records with different agentId carry
\* the same pid.
C1_PidUnique ==
  \A i, j \in 1..Len(store) :
    (store[i].agentId # store[j].agentId /\ HasPid(store[i]) /\ HasPid(store[j]))
      => store[i].pid # store[j].pid

\* a report was accepted whose pid another agent's record carried
C1_Witness ==
  /\ Accepted
  /\ IsTruthyNumber(req.body.pid)
  /\ \E r \in Records(prev.store) :
       r.agentId # req.body.agentId.s /\ HasPid(r) /\ r.pid = req.body.pid.n
  /\ Len(store) >= 1

\* C2: when a report for B is accepted with the pid that A's record carries,
\* afterwards the registry holds B and not A, and on every open connection
\* the handler sent agent_removed(A) first and B's status_update, if it is
\* not debounced, after it; a debounced status_update can only follow, since
\* a stream only grows.
C2_EvictedBeforeUpdate ==
  /\ \A o \in Observers : Extends(o)
  /\ (Accepted /\ IsTruthyNumber(req.body.pid)) =>
       \A r \in Records(prev.store) :
         (r.agentId # req.body.agentId.s /\ HasPid(r) /\ r.pid = req.body.pid.n) =>
           /\ Has(store, req.body.agentId.s)
           /\ ~Has(store, r.agentId)
           /\ \A o \in Observers : conn[o] = "OPEN" =>
                SameMsgs(Sent(o),
                         <<AgentRemoved(r.agentId)>>
                         \o (IF req.body.status.s = "waiting_for_user" THEN <<>>
                             ELSE <<StatusUpdate(Get(store, req.body.agentId.s))>>))

\* the debounce timer of B fired after B's report had evicted A: an observer
\* holds agent_removed(a1) and, after it, the delayed status_update of a2
C2_Witness ==
  /\ req.op = "timer"
  /\ \E o \in Observers :
       /\ Len(msgs[o]) >= 3
       /\ SameMsg(msgs[o][Len(msgs[o]) - 1], AgentRemoved("a1"))
       /\ IsUpdateFor(msgs[o][Len(msgs[o])], "a2")
       /\ msgs[o][Len(msgs[o])].data.status = "waiting_for_user"
       /\ HasPid(msgs[o][Len(msgs[o])].data)

\* C3: the first message sent on a connection is the snapshot of the registry
\* as it is when the connection is accepted; nothing is sent on a connection
\* before it, and no second snapshot follows.
C3_SnapshotFirst ==
  /\ \A o \in Observers :
       /\ conn[o] = "new" => Len(msgs[o]) = 0
       /\ Len(msgs[o]) > 0 =>
            /\ msgs[o][1].type = "snapshot"
            /\ \A i \in 2..Len(msgs[o]) : msgs[o][i].type # "snapshot"
  /\ req.op = "connect" =>
       /\ Len(msgs[req.id]) = 1
       /\ msgs[req.id][1].type = "snapshot"
       /\ msgs[req.id][1].data = store
       /\ store = prev.store

\* an observer connected to a non-empty registry and was sent more since,
\* while another connection was not yet accepted
C3_Witness ==
  \E o, q \in Observers :
    /\ Len(msgs[o]) >= 3
    /\ Len(msgs[o][1].data) >= 1
    /\ conn[q] = "new"

\* the statement of C4; whoElse: the events, besides the timer's expiry and a
\* report for the agent, that may announce a status_update for an agent whose
\* debounce is pending
C4_Statement(whoElse) ==
  /\ (Accepted /\ req.body.status.s = "waiting_for_user") =>
       \A o \in Observers : \A i \in 1..Len(Sent(o)) :
         ~IsUpdateFor(Sent(o)[i], req.body.agentId.s)
  /\ \A id \in DOMAIN prev.pendingWaiting :
       (\E o \in Observers : \E i \in 1..Len(Sent(o)) : IsUpdateFor(Sent(o)[i], id)) =>
          \/ req.op = "timer" /\ req.id = id
          \/ Accepted /\ req.body.agentId.s = id
          \/ req.op \in whoElse /\ req.id = id
  /\ req.op = "timer" =>
       /\ Has(store, req.id)
       /\ Get(store, req.id).status = "waiting_for_user"
       /\ \A o \in Observers : conn[o] = "OPEN" =>
            SameMsgs(Sent(o), <<StatusUpdate(Get(store, req.id))>>)

\* C4 as claimed: after an accepted waiting_for_user report no status_update
\* for the agent is announced until its debounce timer expires, unless another
\* report for the agent arrives; the expiry announces exactly one
\* status_update, with status waiting_for_user.
C4_NoUpdateUntilExpiry == C4_Statement({})

\* C4 as amended: the same, unless another report or a label patch for the
\* agent is accepted in between (a label patch announces at once).
C4_NoUpdateUntilExpiryOrPatch == C4_Statement({"patch"})

\* a debounce timer expired and its status_update reached an observer that was
\* connected when the report was accepted
C4_Witness ==
  /\ req.op = "timer"
  /\ \E o \in Observers :
       /\ conn[o] = "OPEN"
       /\ prev.window[req.id].at[o] >= 0
       /\ Len(Sent(o)) = 1
       /\ Sent(o)[1].data.status = "waiting_for_user"

\* the status_updates for agent id on connection o from position from + 1 on
UpdatesSince(o, id, from) ==
  SelectSeq(SubSeq(msgs[o], from + 1, Len(msgs[o])), LAMBDA m : IsUpdateFor(m, id))

\* the statement of C5; excluded(w): the pending periods the statement leaves out
C5_Statement(excluded(_)) ==
  (/\ Accepted
   /\ req.body.status.s = "running"
   /\ req.body.agentId.s \in DOMAIN prev.window) =>
     LET id == req.body.agentId.s IN
     /\ id \notin DOMAIN pendingWaiting
     /\ \A t \in timers : t.agentId # id
     /\ ~excluded(prev.window[id]) =>
          \A o \in Observers :
            (conn[o] = "OPEN" /\ prev.window[id].at[o] >= 0) =>
               /\ Len(UpdatesSince(o, id, prev.window[id].at[o])) = 1
               /\ UpdatesSince(o, id, prev.window[id].at[o])[1].data.status = "running"

NoneExcluded(w) == FALSE

PatchedExcluded(w) == w.patched

\* C5 as claimed: when a running report supersedes a pending waiting_for_user
\* report, an observer connected since the waiting_for_user report has
\* received exactly one status_update for the agent since then, the running
\* one, and no timer is left to announce waiting_for_user later.
C5_OnlyRunningSeen == C5_Statement(NoneExcluded)

\* C5 as amended: the same, provided no label patch for the agent was accepted
\* between the two reports.
C5_OnlyRunningSeenUnlessPatched == C5_Statement(PatchedExcluded)

\* a running report superseded a pending waiting_for_user report, unpatched,
\* with an observer connected since before the waiting_for_user report
C5_Witness ==
  /\ Accepted
  /\ req.body.status.s = "running"
  /\ req.body.agentId.s \in DOMAIN prev.window
  /\ ~prev.window[req.body.agentId.s].patched
  /\ \E o \in Observers :
       conn[o] = "OPEN" /\ prev.window[req.body.agentId.s].at[o] >= 0

\* message m shows agent id with status waiting_for_user
ShowsWaiting(m, id) ==
  \/ IsUpdateFor(m, id) /\ m.data.status = "waiting_for_user"
  \/ /\ m.type = "snapshot"
     /\ \E k \in 1..Len(m.data) :
          m.data[k].agentId = id /\ m.data[k].status = "waiting_for_user"

\* C6: when a pending waiting_for_user report is superseded by another report
\* for the same agent, no message sent on any connection since the pending
\* period began (a snapshot, a status_update of a label patch) showed the
\* agent with status waiting_for_user.
C6_SupersededNeverShown ==
  (Accepted /\ req.body.agentId.s \in DOMAIN prev.window) =>
     \A o \in Observers :
       \A i \in (prev.window[req.body.agentId.s].from[o] + 1)..Len(msgs[o]) :
         ~ShowsWaiting(msgs[o][i], req.body.agentId.s)

\* C7: a removed agent has no debounce timer left, whichever path removed it,
\* and the removal is announced; a timer that is live belongs to a registered
\* agent and is the one pendingWaiting holds for it; so a status_update is
\* announced for an agent only by an accepted report or label patch for it or
\* by the expiry of a timer that was live for it.
C7_RemovalCancelsTimer ==
  /\ \A id \in Keys(prev.store) \ Keys(store) :
       /\ id \notin DOMAIN pendingWaiting
       /\ \A t \in timers : t.agentId # id
       /\ \A o \in Observers : conn[o] = "OPEN" =>
            \E i \in 1..Len(Sent(o)) : SameMsg(Sent(o)[i], AgentRemoved(id))
  /\ \A t \in timers :
       /\ Has(store, t.agentId)
       /\ t.agentId \in DOMAIN pendingWaiting
       /\ pendingWaiting[t.agentId] = t.h
  /\ \A id \in DOMAIN pendingWaiting : Has(store, id)
  /\ \A o \in Observers : \A i \in 1..Len(Sent(o)) :
       Sent(o)[i].type = "status_update" =>
         \/ Accepted /\ req.body.agentId.s = Sent(o)[i].data.agentId
         \/ req.op = "patch" /\ resp.code = 200 /\ req.id = Sent(o)[i].data.agentId
         \/ /\ req.op = "timer"
            /\ req.id = Sent(o)[i].data.agentId
            /\ \E t \in prev.timers : t.agentId = req.id

\* a report evicted, by its pid, an agent whose debounce was pending
C7_Witness ==
  /\ Accepted
  /\ \E id \in DOMAIN prev.pendingWaiting :
       id # req.body.agentId.s /\ ~Has(store, id)
  /\ \E o \in Observers : conn[o] = "OPEN"

\* the cause the claim allows for the label of agent id to go: an accepted
\* report for id whose label field satisfies gone, or a patch with ""
LabelCleared(id, gone(_)) ==
  \/ Accepted /\ req.body.agentId.s = id /\ gone(req.body.label)
  \/ req.op = "patch" /\ req.id = id /\ resp.code = 200 /\ req.body.label = JStr("")

\* the cause for the label of agent id to take the value l
LabelSupplied(id, l) ==
  \/ Accepted /\ req.body.agentId.s = id /\ req.body.label = JStr(l)
  \/ req.op = "patch" /\ req.id = id /\ resp.code = 200 /\ req.body.label = JStr(l)

C8_Statement(gone(_)) ==
  \A r \in Records(prev.store) :
    (HasLabel(r) /\ Has(store, r.agentId)) =>
      /\ (Accepted /\ req.body.agentId.s = r.agentId /\ req.body.label = Undefined)
           => (HasLabel(Get(store, r.agentId)) /\ Get(store, r.agentId).label = r.label)
      /\ ~HasLabel(Get(store, r.agentId)) => LabelCleared(r.agentId, gone)
      /\ (HasLabel(Get(store, r.agentId)) /\ Get(store, r.agentId).label # r.label)
           => LabelSupplied(r.agentId, Get(store, r.agentId).label)

IsEmptyString(v) == v = JStr("")

\* present in the body and not a non-empty string: "", null, a number
IsNoLabel(v) == v # Undefined /\ ~IsNonEmptyString(v)

\* C8 (as stated): a label that is set stays, with its value, over every
\* accepted report for the agent that omits the label field; while the record
\* stays, the label goes only by a label patch with "" or by a report whose
\* label field is the empty string.
C8_LabelGoesOnlyByEmptyString == C8_Statement(IsEmptyString)

\* C8 (amended): a label that is set stays, with its value, over every accepted
\* report for the agent that omits the label field; while the record stays,
\* the label goes only by a label patch with "" or by a report whose label
\* field is present and is not a non-empty string ("", null, a number).
C8_LabelGoesOnlyByNoLabel == C8_Statement(IsNoLabel)

\* a report that omits the label field was accepted for an agent whose label
\* was set, and the label is still there with its value
C8_Witness ==
  /\ Accepted
  /\ req.body.label = Undefined
  /\ Has(prev.store, req.body.agentId.s)
  /\ HasLabel(Get(prev.store, req.body.agentId.s))
  /\ HasLabel(Get(store, req.body.agentId.s))
  /\ Get(store, req.body.agentId.s).label = Get(prev.store, req.body.agentId.s).label
  /\ Get(store, req.body.agentId.s).status # Get(prev.store, req.body.agentId.s).status

BadAgentId(b) == b.agentId.t # "string" \/ b.agentId.s = ""

BadStatus(b) ==
  b.status.t # "string" \/ b.status.s \notin {"running", "waiting_for_user", "idle", "error"}

BadProjectName(b) == b.projectName.t # "string" \/ b.projectName.s = ""

FirstBadField(b) ==
  IF BadAgentId(b) THEN "agentId"
  ELSE IF BadStatus(b) THEN "status"
  ELSE IF BadProjectName(b) THEN "projectName"
  ELSE ""

\* C9: a report with a bad agentId, status or projectName is answered 400 with
\* an error that names the first bad field in the order agentId, status,
\* projectName, and leaves the registry, the pending timers and every
\* observer's stream as they were; any other report is accepted.
C9_RejectedNamingFirstField ==
  req.op = "post" =>
    IF FirstBadField(req.body) # ""
      THEN /\ resp.code = 400
           /\ resp.error = "Missing or invalid field: " \o FirstBadField(req.body)
           /\ store = prev.store
           /\ pendingWaiting = prev.pendingWaiting
           /\ timers = prev.timers
           /\ \A o \in Observers : SameMsgs(msgs[o], prev.msgs[o])
      ELSE resp.code = 200

\* a report whose status and projectName are both bad was rejected while an
\* agent was registered, its debounce pending and an observer connected
C9_Witness ==
  /\ req.op = "post"
  /\ resp.code = 400
  /\ ~BadAgentId(req.body) /\ BadStatus(req.body) /\ BadProjectName(req.body)
  /\ store # <<>>
  /\ timers # {}
  /\ \E o \in Observers : conn[o] = "OPEN" /\ msgs[o] # <<>>

Ids(st) == [i \in 1..Len(st) |-> st[i].agentId]

\* the records of prev.store that the step kept
Kept == SelectSeq(prev.store, LAMBDA r : Has(store, r.agentId))

\* C10: after an accepted report the registry holds exactly one record for the
\* agentId, with the reported status: at the end when the agentId was unused,
\* at the place of the old record otherwise, the other records that stay
\* untouched; GET returns the registry as it is, so a GET right after an
\* accepted report whose status is not waiting_for_user returns exactly one
\* record for the agentId, with the reported status.
C10_UpsertAndGet ==
  /\ Accepted =>
       /\ Cardinality({i \in 1..Len(store) : store[i].agentId = req.body.agentId.s}) = 1
       /\ Get(store, req.body.agentId.s).status = req.body.status.s
       /\ Ids(store) = IF Has(prev.store, req.body.agentId.s)
                         THEN Ids(Kept)
                         ELSE Append(Ids(Kept), req.body.agentId.s)
       /\ \A r \in Records(Kept) :
            r.agentId # req.body.agentId.s => Get(store, r.agentId) = r
  /\ req.op = "get" =>
       /\ resp.code = 200
       /\ resp.data = store
       /\ store = prev.store
       /\ (prev.req.op = "post" /\ prev.resp.code = 200
             /\ prev.req.body.status.s # "waiting_for_user") =>
            /\ Cardinality({i \in 1..Len(resp.data) :
                              resp.data[i].agentId = prev.req.body.agentId.s}) = 1
            /\ \E i \in 1..Len(resp.data) :
                 /\ resp.data[i].agentId = prev.req.body.agentId.s
                 /\ resp.data[i].status = prev.req.body.status.s

\* GET right after an accepted report, not waiting_for_user, that added a
\* second agent to the registry
C10_Witness ==
  /\ req.op = "get"
  /\ prev.req.op = "post"
  /\ prev.resp.code = 200
  /\ prev.req.body.status.s = "error"
  /\ Len(resp.data) = 2
  /\ resp.data[2].agentId = prev.req.body.agentId.s

-----------------------------------------------------------------------------
\* C11: a GET right after an accepted waiting_for_user report, the debounce
\* of the agent still pending, does not return the agent's record with status
\* waiting_for_user.
C11_GetDelayed ==
  (/\ req.op = "get"
   /\ prev.req.op = "post" /\ prev.resp.code = 200
   /\ prev.req.body.status.s = "waiting_for_user"
   /\ prev.req.body.agentId.s \in DOMAIN pendingWaiting) =>
     \A i \in 1..Len(resp.data) :
       ~(/\ resp.data[i].agentId = prev.req.body.agentId.s
         /\ resp.data[i].status = "waiting_for_user")

\* what connection o must have been sent by an event that announces ms
Announced(o, ms) ==
  SameMsgs(Sent(o), IF conn[o] = "OPEN" THEN ms ELSE <<>>)

\* C12: DELETE for a registered agentId answers 200, removes that record and
\* no other, the others keeping their content and order, and sends
\* agent_removed with that agentId, and nothing else, to every connected
\* observer.
C12_DeleteRemovesExactlyOne ==
  (req.op = "delete" /\ Has(prev.store, req.id)) =>
     /\ resp.code = 200
     /\ ~Has(store, req.id)
     /\ store = SelectSeq(prev.store, LAMBDA r : r.agentId # req.id)
     /\ \A o \in Observers : Announced(o, <<AgentRemoved(req.id)>>)

\* one of two registered agents was deleted while an observer was connected
C12_Witness ==
  /\ req.op = "delete"
  /\ Has(prev.store, req.id)
  /\ Len(prev.store) = 2
  /\ Len(store) = 1
  /\ \E o \in Observers : conn[o] = "OPEN" /\ Len(Sent(o)) = 1

\* C13: DELETE for an agentId that is not registered answers 404, leaves the
\* registry and the pending timers as they were and sends nothing to any
\* observer.
C13_DeleteUnknown ==
  (req.op = "delete" /\ ~Has(prev.store, req.id)) =>
     /\ resp.code = 404
     /\ store = prev.store
     /\ pendingWaiting = prev.pendingWaiting
     /\ timers = prev.timers
     /\ \A o \in Observers : Sent(o) = <<>>

\* DELETE for an unknown agent while another agent was registered with its
\* debounce pending and an observer was connected
C13_Witness ==
  /\ req.op = "delete"
  /\ resp.code = 404
  /\ store # <<>>
  /\ timers # {}
  /\ \E o \in Observers : conn[o] = "OPEN"

-----------------------------------------------------------------------------
\* C14: a label patch answers 404 when the agentId is not registered, whatever
\* the label, 400 when the agent is registered and the label is not a string,
\* 200 otherwise; after 404 and 400 the registry is as it was and nothing was
\* sent to any observer.
C14_PatchOutcomes ==
  req.op = "patch" =>
    /\ resp.code = (IF ~Has(prev.store, req.id) THEN 404
                    ELSE IF req.body.label.t # "string" THEN 400
                    ELSE 200)
    /\ resp.code # 200 =>
         /\ store = prev.store
         /\ \A o \in Observers : Sent(o) = <<>>

\* a patch with a label that is not a string, for an agent that is not
\* registered, was answered 404 while another agent was registered and an
\* observer connected
C14_Witness ==
  /\ req.op = "patch"
  /\ req.body.label.t # "string"
  /\ resp.code = 404
  /\ store # <<>>
  /\ \E o \in Observers : conn[o] = "OPEN"

\* the label a successful patch with body label v leaves on record r
HasPatchedLabel(r, v) ==
  IF v.s = "" THEN ~HasLabel(r) ELSE HasLabel(r) /\ r.label = v.s

\* C15: a successful label patch sends one status_update carrying the record
\* as it stands after the patch to every connected observer in the same step,
\* whatever the status and whether or not a debounce is pending; the pending
\* timers are as they were; the record differs from the old one in label
\* only, and the other records are as they were.
C15_PatchAnnouncedAtOnce ==
  (req.op = "patch" /\ resp.code = 200) =>
     /\ Has(store, req.id)
     /\ \A o \in Observers : Announced(o, <<StatusUpdate(Get(store, req.id))>>)
     /\ timers = prev.timers
     /\ pendingWaiting = prev.pendingWaiting
     /\ WithoutLabel(Get(store, req.id)) = WithoutLabel(Get(prev.store, req.id))
     /\ HasPatchedLabel(Get(store, req.id), req.body.label)
     /\ Ids(store) = Ids(prev.store)
     /\ \A r \in Records(prev.store) : r.agentId # req.id => Get(store, r.agentId) = r

\* a label patch succeeded for an agent whose status is waiting_for_user and
\* whose debounce is pending, an observer being connected
C15_Witness ==
  /\ req.op = "patch"
  /\ resp.code = 200
  /\ Get(store, req.id).status = "waiting_for_user"
  /\ req.id \in DOMAIN pendingWaiting
  /\ \E t \in timers : t.agentId = req.id
  /\ \E o \in Observers : conn[o] = "OPEN" /\ Len(Sent(o)) = 1

\* C16: a successful label patch leaves the timestamp of the record as it was,
\* so a record without pid that was due for the age-based eviction before the
\* patch is still due after it.
C16_PatchKeepsTimestamp ==
  (req.op = "patch" /\ resp.code = 200) =>
     /\ Get(store, req.id).timestamp = Get(prev.store, req.id).timestamp
     /\ IsStale(Get(prev.store, req.id), {}, now) => IsStale(Get(store, req.id), {}, now)

\* a label patch succeeded for a record without pid older than the fallback
\* timeout
C16_Witness ==
  /\ req.op = "patch"
  /\ resp.code = 200
  /\ ~HasPid(Get(store, req.id))
  /\ now - Get(prev.store, req.id).timestamp > STALE_TIMEOUT_MS
  /\ HasLabel(Get(store, req.id))

-----------------------------------------------------------------------------
\* how many messages of ms are agent_removed for id
RemovedCount(ms, id) ==
  Cardinality({i \in 1..Len(ms) : SameMsg(ms[i], AgentRemoved(id))})

\* C17: a reaper sweep removes every record whose pid the liveness probe does
\* not report alive and sends each connected observer exactly one
\* agent_removed for it; after the sweep the registry holds no such record.
C17_ReaperRemovesDead ==
  req.op = "cleanup" =>
    /\ \A r \in Records(prev.store) :
         (HasPid(r) /\ r.pid \notin req.alive) =>
           /\ ~Has(store, r.agentId)
           /\ \A o \in Observers :
                RemovedCount(Sent(o), r.agentId) = (IF conn[o] = "OPEN" THEN 1 ELSE 0)
    /\ \A r \in Records(store) : HasPid(r) => r.pid \in req.alive

\* one sweep removed two records whose processes were gone and told a
\* connected observer of both
C17_Witness ==
  /\ req.op = "cleanup"
  /\ Cardinality({r \in Records(prev.store) : HasPid(r) /\ r.pid \notin req.alive}) = 2
  /\ store = <<>>
  /\ \E o \in Observers : conn[o] = "OPEN" /\ Len(Sent(o)) = 2

\* C18: in a reaper sweep a record without pid is evicted exactly when now
\* minus its timestamp exceeds 24 h; a record whose pid is alive stays
\* whatever its age; the records that stay keep content and order, and their
\* pending timers are as they were.
C18_ReaperAgeFallback ==
  req.op = "cleanup" =>
    /\ \A r \in Records(prev.store) :
         /\ ~HasPid(r) => (~Has(store, r.agentId) <=> now - r.timestamp > 24 * 60 * 60 * 1000)
         /\ (HasPid(r) /\ r.pid \in req.alive) => Has(store, r.agentId)
    /\ store = SelectSeq(prev.store, LAMBDA r : Has(store, r.agentId))
    /\ \A id \in Keys(store) :
         /\ id \in DOMAIN pendingWaiting <=> id \in DOMAIN prev.pendingWaiting
         /\ id \in DOMAIN pendingWaiting => pendingWaiting[id] = prev.pendingWaiting[id]
         /\ {t \in timers : t.agentId = id} = {t \in prev.timers : t.agentId = id}

\* one sweep evicted a record without pid older than 24 h and kept a record,
\* as old, whose process was alive
C18_Witness ==
  /\ req.op = "cleanup"
  /\ \E r \in Records(prev.store) :
       ~HasPid(r) /\ now - r.timestamp > STALE_TIMEOUT_MS /\ ~Has(store, r.agentId)
  /\ \E r \in Records(prev.store) :
       /\ HasPid(r) /\ r.pid \in req.alive
       /\ now - r.timestamp > STALE_TIMEOUT_MS
       /\ Has(store, r.agentId)

-----------------------------------------------------------------------------
\* an inbound frame that is a focus_request with a string agentId
WellFormedFocus(raw) ==
  raw.json /\ raw.type = JStr("focus_request") /\ raw.agentId.t = "string"

\* message m is the focus_request for agent id that registry st calls for
IsFocusFor(m, st, id) ==
  /\ m.type = "focus_request"
  /\ DOMAIN m.data \subseteq {"agentId", "pid", "cwd"}
  /\ m.data.agentId = id
  /\ "pid" \in DOMAIN m.data <=> (Has(st, id) /\ "pid" \in DOMAIN Get(st, id))
  /\ "pid" \in DOMAIN m.data => m.data.pid = Get(st, id).pid
  /\ "cwd" \in DOMAIN m.data <=> (Has(st, id) /\ "cwd" \in DOMAIN Get(st, id))
  /\ "cwd" \in DOMAIN m.data => m.data.cwd = Get(st, id).cwd

\* C19: a well-formed focus request naming agent X sends exactly one message
\* to every connected observer, the sender among them, and none to the
\* others; it is a focus_request carrying X, the pid and the cwd of X's
\* record when the record has them, and X alone when X is not registered; the
\* registry and the pending timers are as they were.
C19_FocusRebroadcast ==
  (req.op = "message" /\ WellFormedFocus(req.raw)) =>
     /\ conn[req.id] = "OPEN"
     /\ \A o \in Observers :
          IF conn[o] = "OPEN"
            THEN /\ Len(Sent(o)) = 1
                 /\ IsFocusFor(Sent(o)[1], prev.store, req.raw.agentId.s)
            ELSE Sent(o) = <<>>
     /\ store = prev.store
     /\ pendingWaiting = prev.pendingWaiting
     /\ timers = prev.timers

\* a focus request for an agent registered with pid and cwd reached two
\* connected observers, pid and cwd in it
C19_Witness ==
  /\ req.op = "message"
  /\ WellFormedFocus(req.raw)
  /\ \A o \in Observers :
       /\ conn[o] = "OPEN"
       /\ Len(Sent(o)) = 1
       /\ DOMAIN Sent(o)[1].data = {"agentId", "pid", "cwd"}

\* an inbound frame the claim calls dropped
DroppedFrame(raw) ==
  \/ ~raw.json
  \/ raw.type # JStr("focus_request")
  \/ raw.agentId.t # "string"

\* C20: an inbound frame that is not JSON, has another type than
\* focus_request, or is a focus_request without a string agentId sends nothing
\* to any observer and leaves the registry and the pending timers as they
\* were; the sending connection stays open, and an announcement made right
\* after it reaches the sender.
C20_BadFrameDropped ==
  /\ (req.op = "message" /\ DroppedFrame(req.raw)) =>
       /\ \A o \in Observers : Sent(o) = <<>>
       /\ store = prev.store
       /\ pendingWaiting = prev.pendingWaiting
       /\ timers = prev.timers
       /\ conn[req.id] = "OPEN"
  /\ (/\ prev.req.op = "message" /\ DroppedFrame(prev.req.raw)
      /\ Accepted /\ req.body.status.s # "waiting_for_user") =>
       \E i \in 1..Len(Sent(prev.req.id)) :
         IsUpdateFor(Sent(prev.req.id)[i], req.body.agentId.s)

\* a frame was dropped while an agent was registered with its debounce pending
\* and the sender had its snapshot
C20_Witness ==
  /\ req.op = "message"
  /\ DroppedFrame(req.raw)
  /\ store # <<>>
  /\ timers # {}
  /\ Len(msgs[req.id]) = 1

-----------------------------------------------------------------------------
C22_ShutdownClosesObservers ==
  ~listening =>
     /\ \A o \in Observers : conn[o] # "OPEN"
     /\ req.op # "connect"

-----------------------------------------------------------------------------
\* the last k messages of stream s
LastOf(s, k) == SubSeq(s, Len(s) - k + 1, Len(s))

\* the messages after the snapshot that two streams can have in common: all
\* of the shorter one but its snapshot
Common(o, p) ==
  IF Len(msgs[o]) <= Len(msgs[p]) THEN Len(msgs[o]) - 1 ELSE Len(msgs[p]) - 1

\* C23: a stream only grows, at its end, so an observer is sent the messages
\* in the order they were announced; two observers that are both open have
\* been sent, since the later of their snapshots, the same status_update,
\* agent_removed and focus_request messages in the same order.
C23_SameSequence ==
  /\ \A o \in Observers : Extends(o)
  /\ \A o, p \in Observers :
       (conn[o] = "OPEN" /\ conn[p] = "OPEN") =>
          /\ SameMsgs(LastOf(msgs[o], Common(o, p)), LastOf(msgs[p], Common(o, p)))
          /\ \A i \in 1..Common(o, p) :
               LastOf(msgs[o], Common(o, p))[i].type # "snapshot"

\* two observers that connected at different times have both been sent the
\* agent_removed and the status_update of one report, in that order
C23_Witness ==
  /\ conn["o1"] = "OPEN" /\ conn["o2"] = "OPEN"
  /\ Len(msgs["o1"]) # Len(msgs["o2"])
  /\ Common("o1", "o2") >= 2
  /\ LastOf(msgs["o1"], 2)[1].type = "agent_removed"
  /\ LastOf(msgs["o2"], 2)[2].type = "status_update"

-----------------------------------------------------------------------------
\* C25: when the stopServerIfLast of a deactivating window sends SIGTERM to
\* the server, no other window is active and using that server.
C25_NeverStoppedWhileUsed ==
  (event.op = "deactivate" /\ event.killed # 0) =>
     \A w \in Windows :
       ~(windows[w].state = "active" /\ windows[w].uses = event.killed)

\* C26: once every window that used the server has deactivated, the
\* directory of instances is empty and every server still alive has been sent
\* SIGTERM, also when a window ran startServer again from its health check.
C26_StoppedWhenNoneRemain ==
  (/\ \A w \in Windows : windows[w].state # "active"
   /\ \E w \in Windows : windows[w].state = "gone") =>
     /\ instances = {}
     /\ servers \subseteq signalled

\* ---------------------------------------------------------------------------
\* agent-observer-hook.sh, one run.  The script runs under `set -euo
\* pipefail`: a command substitution whose pipeline fails ends the script with
\* that status unless the statement is guarded by `||`.
\* ---------------------------------------------------------------------------

\* curl --max-time, in seconds
CurlMaxTime == 2

\* what a run is given: whether stdin holds "session_id":"..." (and whether
\* the value is empty), whether it holds "cwd":"...", the lock file, whether
\* the port answers, and $1
HookInputs ==
  [session : {"absent", "empty", "set"}, cwd : {"absent", "set"},
   lock : {"absent", "noport", "port"}, reachable : BOOLEAN,
   status : {"running", "waiting_for_user", "delete"}]

HookRun(in, pc, exit, sent, waited) ==
  [in |-> in, pc |-> pc, exit |-> exit, sent |-> sent, waited |-> waited]

HookExit(code) ==
  hook' = HookRun(hook.in, "done", code, hook.sent, hook.waited)

HookGoto(pc) ==
  hook' = HookRun(hook.in, pc, hook.exit, hook.sent, hook.waited)

\* grep -o exits with 1 when nothing matches, and with pipefail that is the
\* status of the pipeline
GrepFails(found) == ~found

\* SESSION_ID="$(echo "$INPUT" | grep -o '"session_id":"[^"]*"' | ...)" and
\* the same for CWD: unguarded, so a failing grep ends the run with status 1
HookExtract ==
  /\ hook.pc = "extract"
  /\ IF GrepFails(hook.in.session # "absent") \/ GrepFails(hook.in.cwd # "absent")
       THEN HookExit(1)
       ELSE HookGoto("bail")
  /\ UNCHANGED <<core, steps, host, sorting, probe, client>>

\* if [ -z "$SESSION_ID" ]; then exit 0; fi
\* if [ ! -f "$LOCK_FILE" ]; then exit 0; fi
HookBail ==
  /\ hook.pc = "bail"
  /\ IF hook.in.session = "empty" \/ hook.in.lock = "absent"
       THEN HookExit(0)
       ELSE HookGoto("port")
  /\ UNCHANGED <<core, steps, host, sorting, probe, client>>

\* PORT="$(grep -o '"port" *: *[0-9]*' "$LOCK_FILE" | head -1 | grep -o '[0-9]*')"
\* unguarded as well; the test for an empty PORT after it is never reached
\* with an empty PORT
HookPort ==
  /\ hook.pc = "port"
  /\ IF GrepFails(hook.in.lock = "port")
       THEN HookExit(1)
       ELSE HookGoto("send")
  /\ UNCHANGED <<core, steps, host, sorting, probe, client>>

\* curl ... --max-time 2 > /dev/null 2>&1 || true; exit 0
HookSend ==
  /\ hook.pc = "send"
  /\ \E waited \in 0..CurlMaxTime :
       /\ hook.in.reachable => waited = 0
       /\ hook' = HookRun(hook.in, "done", 0,
                          IF hook.in.status = "delete" THEN "DELETE" ELSE "POST",
                          waited)
  /\ UNCHANGED <<core, steps, host, sorting, probe, client>>

InitHook ==
  /\ Boot
  /\ sorting = NoSorting
  /\ probe = NoProbe
  /\ \E in \in HookInputs : hook = HookRun(in, "extract", -1, "none", 0)

NextHook ==
  \/ HookExtract
  \/ HookBail
  \/ HookPort
  \/ HookSend

SpecHook == InitHook /\ [][NextHook]_vars

\* C27: every run of the hook script that has ended has ended with status 0,
\* having waited no longer than curl's time limit, whatever stdin, the lock
\* file and the server were.
C27_HookAlwaysExitsZero ==
  hook.pc = "done" => hook.exit = 0 /\ hook.waited <= CurlMaxTime

\* ---------------------------------------------------------------------------
\* sort-agents.ts: sortAgents(list, moveInactiveToTop), one call
\* ---------------------------------------------------------------------------

MaxListLen == 3

SortStatuses == {"running", "idle", "waiting_for_user"}

SortTimestamps == {100, 200}

\* the arrays a call may be given: element i carries i as its identity
SortLists ==
  UNION { { [i \in 1..n |-> [status |-> f[i][1], timestamp |-> f[i][2], id |-> i]] :
              f \in [1..n -> SortStatuses \X SortTimestamps] } :
          n \in 0..MaxListLen }

\* a mutant of the comparator: the groups are ignored
CompareByTimestamp(a, b) == a.timestamp - b.timestamp

\* the comparator handed to Array.prototype.sort
Compare(a, b) ==
  LET aInactive == IF a.status # "running" THEN 0 ELSE 1
      bInactive == IF b.status # "running" THEN 0 ELSE 1
  IN  IF aInactive # bInactive
        THEN aInactive - bInactive
        ELSE a.timestamp - b.timestamp

\* Array.prototype.sort is stable: x goes in front of the first element it
\* compares less than, behind every element it compares equal to
RECURSIVE Insert(_, _)
Insert(x, s) ==
  IF s = <<>> THEN <<x>>
  ELSE IF Compare(x, Head(s)) < 0 THEN <<x>> \o s
  ELSE <<Head(s)>> \o Insert(x, Tail(s))

RECURSIVE Sort(_)
Sort(s) ==
  IF s = <<>> THEN <<>>
  ELSE Insert(s[Len(s)], Sort(SubSeq(s, 1, Len(s) - 1)))

\* list: the argument array as it is now; arg: as it was when the call was
\* made; out: the array returned; same: the array returned is the argument
SortCall(pc, list, arg, moveInactiveToTop, out, same) ==
  [pc |-> pc, list |-> list, arg |-> arg, moveInactiveToTop |-> moveInactiveToTop,
   out |-> out, same |-> same]

\* if (!moveInactiveToTop) return list; return [...list].sort(...)
sortAgents ==
  /\ sorting.pc = "call"
  /\ sorting' =
       IF ~sorting.moveInactiveToTop
         THEN SortCall("done", sorting.list, sorting.arg, FALSE, sorting.list, TRUE)
         ELSE SortCall("done", sorting.list, sorting.arg, TRUE, Sort(sorting.list), FALSE)
  /\ UNCHANGED <<core, steps, host, hook, probe, client>>

InitSort ==
  /\ Boot
  /\ hook = NoHook
  /\ probe = NoProbe
  /\ \E list \in SortLists, moveInactiveToTop \in BOOLEAN :
       sorting = SortCall("call", list, list, moveInactiveToTop, <<>>, FALSE)

NextSort == sortAgents

SpecSort == InitSort /\ [][NextSort]_vars

IsPermutation(s, t) ==
  /\ Len(s) = Len(t)
  /\ \E p \in [1..Len(s) -> 1..Len(s)] :
       /\ \A i, j \in 1..Len(s) : p[i] = p[j] => i = j
       /\ \A i \in 1..Len(s) : s[i] = t[p[i]]

Running(a) == a.status = "running"

\* C28: with moveInactiveToTop the result of sortAgents is a permutation of
\* the list in which no running agent precedes an agent that is not running
\* and, within each of the two groups, timestamps ascend, and the list passed
\* in is as it was; without it the result is the list passed in, unchanged.
C28_SortAgents ==
  sorting.pc = "done" =>
    /\ sorting.list = sorting.arg
    /\ IF sorting.moveInactiveToTop
         THEN /\ IsPermutation(sorting.out, sorting.arg)
              /\ \A i, j \in 1..Len(sorting.out) :
                   i < j =>
                     /\ ~(Running(sorting.out[i]) /\ ~Running(sorting.out[j]))
                     /\ Running(sorting.out[i]) = Running(sorting.out[j])
                          => sorting.out[i].timestamp <= sorting.out[j].timestamp
         ELSE sorting.same /\ sorting.out = sorting.arg

\* a call with moveInactiveToTop on a list that starts with a running agent
\* followed by two agents that are not running, the later one older
C28_Witness ==
  /\ sorting.pc = "done"
  /\ sorting.moveInactiveToTop
  /\ Len(sorting.arg) = 3
  /\ Running(sorting.arg[1])
  /\ ~Running(sorting.arg[2])
  /\ ~Running(sorting.arg[3])
  /\ sorting.arg[2].timestamp > sorting.arg[3].timestamp
  /\ sorting.out # sorting.arg

\* ---------------------------------------------------------------------------
\* The debounce: repeated waiting_for_user reports at different times
\* ---------------------------------------------------------------------------

MaxDebounceSteps == 5

DebounceStep(A) ==
  /\ steps < MaxDebounceSteps
  /\ steps' = steps + 1
  /\ A

\* less than the debounce delay passes between two events
DebounceDeltas == {1000}

DebounceObservers == {"o1"}

DebounceBodies ==
  {Body(JStr("a1"), JStr(s), JStr("proj"), Undefined, Undefined, Undefined, Undefined) :
     s \in {"waiting_for_user", "running"}}
  \cup {Body(JStr("a2"), JStr("waiting_for_user"), JStr("proj"), Undefined, Undefined,
             Undefined, Undefined)}

DebouncePatches == {[NoBody EXCEPT !.label = JStr("L")]}

NextDebounce ==
  \/ \E body \in DebounceBodies : DebounceStep(PostStatus(body))
  \/ \E body \in DebouncePatches : DebounceStep(PatchLabel("a1", body))
  \/ \E t \in timers : DebounceStep(TimerFire(t))
  \/ \E d \in DebounceDeltas : DebounceStep(Tick(d))
  \/ \E o \in DebounceObservers : DebounceStep(Connect(o))

SpecDebounce == Init /\ [][NextDebounce]_vars

TimersOf(tm, id) == {t \in tm : t.agentId = id}

UpdatesIn(ms, id) == SelectSeq(ms, LAMBDA m : IsUpdateFor(m, id))

\* C29: an accepted report for an agent leaves none of the agent's earlier
\* timers pending: a waiting_for_user report leaves exactly one, due
\* 3000 ms after that report, and announces nothing for the agent itself;
\* a report of another status leaves none and announces its record.  At any
\* time at most one timer is pending per agent, the one pendingWaiting holds.
\* When the timer fires the delay has passed since the last report for the
\* agent, one status_update is sent to each connected observer, no timer is
\* left for the agent, and an observer connected since the first of the
\* consecutive waiting_for_user reports has been sent exactly one
\* status_update for the agent since then (the announcements of label patches
\* accepted in between set aside).
C29_RestartNotStack ==
  /\ \A id \in AgentIds :
       /\ Cardinality(TimersOf(timers, id)) <= 1
       /\ id \in DOMAIN pendingWaiting <=> TimersOf(timers, id) # {}
       /\ \A t \in TimersOf(timers, id) : t.h = pendingWaiting[id]
  /\ Accepted =>
       LET id == req.body.agentId.s IN
       IF req.body.status.s = "waiting_for_user"
         THEN /\ TimersOf(timers, id) =
                   {[h |-> pendingWaiting[id], agentId |-> id,
                     due |-> now + WAITING_DEBOUNCE_MS]}
              /\ \A o \in Observers : Len(UpdatesIn(Sent(o), id)) = 0
         ELSE /\ TimersOf(timers, id) = {}
              /\ \A o \in Observers :
                   conn[o] = "OPEN" => Len(UpdatesIn(Sent(o), id)) = 1
  /\ req.op = "timer" =>
       LET id == req.id
           w  == prev.window[id]
       IN /\ now >= Get(store, id).timestamp + WAITING_DEBOUNCE_MS
          /\ TimersOf(timers, id) = {}
          /\ \A o \in Observers :
               conn[o] = "OPEN" =>
                 /\ Len(UpdatesIn(Sent(o), id)) = 1
                 /\ (w.at[o] >= 0 /\ ~w.patched)
                      => Len(UpdatesSince(o, id, w.at[o])) = 1

\* a timer fired after two or more waiting_for_user reports for its agent, the
\* last of them later than the first, with an observer connected since before
\* the first
C29_Witness ==
  /\ req.op = "timer"
  /\ prev.window[req.id].reports >= 2
  /\ ~prev.window[req.id].patched
  /\ Get(store, req.id).timestamp > prev.window[req.id].first
  /\ \E o \in Observers :
       /\ conn[o] = "OPEN"
       /\ prev.window[req.id].at[o] = prev.window[req.id].from[o]
       /\ Len(Sent(o)) = 1

\* ---------------------------------------------------------------------------
\* The debounce timer's callback: in the running server with label patches
\* between report and expiry, and by itself on registries given to it
\* ---------------------------------------------------------------------------

FireReports ==
  {Body(JStr("a1"), JStr(s), JStr("proj"), Undefined, Undefined, Undefined, Undefined) :
     s \in {"waiting_for_user", "running"}}

ProbeRecord(id, status, labels) ==
  [agentId |-> id, status |-> status, projectName |-> "proj", timestamp |-> 0]
  @@ (IF labels = {} THEN EmptyObj ELSE [label |-> CHOOSE l \in labels : TRUE])

\* the registries the callback is run on: without the agent, with the agent
\* in each status, with and without a label, alone or behind another agent
ProbeStores ==
  LET own == {<<>>}
             \cup {<<ProbeRecord("a1", s, ls)>> :
                     s \in VALID_STATUSES, ls \in {{}, {"L"}}}
  IN  own \cup {<<ProbeRecord("a2", "waiting_for_user", {})>> \o st : st \in own}

ProbeRun(pc, st, id, out) == [pc |-> pc, store |-> st, id |-> id, out |-> out]

\* const current = store.get(agentId);
\* if (current && current.status === "waiting_for_user") broadcast(...)
Callback ==
  /\ probe.pc = "call"
  /\ probe' = ProbeRun("done", probe.store, probe.id,
                       FireMessages(probe.store, probe.id))
  /\ UNCHANGED <<core, steps, host, hook, sorting, client>>

InitFire ==
  /\ Boot
  /\ hook = NoHook
  /\ sorting = NoSorting
  /\ \E st \in ProbeStores : probe = ProbeRun("call", st, "a1", <<>>)

NextFire ==
  \/ \E body \in FireReports : Step(PostStatus(body))
  \/ \E body \in PatchBodies : Step(PatchLabel("a1", body))
  \/ Step(DeleteStatus("a1"))
  \/ \E t \in timers : Step(TimerFire(t))
  \/ \E o \in LabelObservers : Step(Connect(o))
  \/ Callback

SpecFire == InitFire /\ [][NextFire]_vars

\* C30: when a debounce timer fires, each connected observer is sent one
\* status_update carrying the record the registry holds for the agent at that
\* moment, whatever the record was when the report was accepted; and the
\* timer's callback broadcasts nothing when the registry does not hold the
\* agent or holds it with a status other than waiting_for_user.
C30_FireAnnouncesCurrent ==
  /\ req.op = "timer" =>
       \A o \in Observers :
         IF conn[o] = "OPEN" /\ Has(store, req.id)
            /\ Get(store, req.id).status = "waiting_for_user"
           THEN /\ Len(Sent(o)) = 1
                /\ Sent(o)[1].type = "status_update"
                /\ Sent(o)[1].data = Get(store, req.id)
           ELSE Len(Sent(o)) = 0
  /\ probe.pc = "done" =>
       IF \E i \in 1..Len(probe.store) :
            /\ probe.store[i].agentId = probe.id
            /\ probe.store[i].status = "waiting_for_user"
         THEN /\ Len(probe.out) = 1
              /\ probe.out[1].type = "status_update"
              /\ probe.out[1].data \in Records(probe.store)
              /\ probe.out[1].data.agentId = probe.id
         ELSE probe.out = <<>>

\* a timer fired for an agent whose label a patch changed after the report was
\* accepted, and the status_update sent to a connected observer carries the
\* patched label
C30_FiredPatched ==
  /\ req.op = "timer"
  /\ prev.window[req.id].patched
  /\ Get(store, req.id) # prev.window[req.id].accepted
  /\ \E o \in Observers :
       /\ conn[o] = "OPEN"
       /\ Len(Sent(o)) = 1
       /\ "label" \in DOMAIN Sent(o)[1].data
       /\ "label" \notin DOMAIN prev.window[req.id].accepted

\* the callback ran on a registry without the agent and broadcast nothing
C30_RanAbsent ==
  /\ probe.pc = "done"
  /\ Len(probe.store) = 1
  /\ probe.store[1].agentId # probe.id
  /\ probe.out = <<>>

\* both cases of C30 have happened
C30_Witness == C30_FiredPatched /\ C30_RanAbsent

\* ---------------------------------------------------------------------------
\* Replacement of a record: reports for one agent with each optional field
\* present, absent or of a kind the handler drops
\* ---------------------------------------------------------------------------

\* projectName, client, cwd, pid, label of a report
ReplaceFields ==
  { <<JStr("proj"), JStr("cli"), JStr("/w"), JNum(7), JStr("L")>>,
    <<JStr("other"), Undefined, Undefined, Undefined, Undefined>>,
    <<JStr("proj"), JNum(1), JStr(""), JNum(0), Undefined>>,
    <<JStr("proj"), JStr(""), JNum(3), JNull, JStr("")>> }

ReplaceBodies ==
  {Body(JStr("a1"), JStr(s), f[1], f[2], f[3], f[4], f[5]) :
     s \in {"running", "idle"}, f \in ReplaceFields}

NextReplace ==
  \/ \E body \in ReplaceBodies : Step(PostStatus(body))
  \/ Step(DeleteStatus("a1"))
  \/ \E o \in LabelObservers : Step(Connect(o))

SpecReplace == Init /\ [][NextReplace]_vars

\* record r carries field f with value v, or lacks it when has is FALSE
FieldIs(r, f, has, v) ==
  IF has THEN f \in DOMAIN r /\ r[f] = v ELSE f \notin DOMAIN r

\* C31: after an accepted report the agent's record has the report's status
\* and projectName, and client, cwd and pid exactly as the report gives them
\* (a field the report lacks, or gives as something other than a non-empty
\* string or a non-zero number, is absent from the record whatever the
\* previous record held); no other field but agentId, timestamp and label is
\* in the record, and label is the only field that can come from the previous
\* record.
C31_FullReplace ==
  Accepted =>
    LET body == req.body
        r    == Get(store, body.agentId.s)
    IN /\ Has(store, body.agentId.s)
       /\ r.agentId = body.agentId.s
       /\ r.status = body.status.s
       /\ r.projectName = body.projectName.s
       /\ FieldIs(r, "client", body.client.t = "string" /\ body.client.s # "",
                  body.client.s)
       /\ FieldIs(r, "cwd", body.cwd.t = "string" /\ body.cwd.s # "", body.cwd.s)
       /\ FieldIs(r, "pid", body.pid.t = "number" /\ body.pid.n # 0, body.pid.n)
       /\ DOMAIN r \subseteq {"agentId", "status", "projectName", "timestamp",
                              "client", "cwd", "pid", "label"}
       /\ ("label" \in DOMAIN r /\ body.label.t # "string") =>
            /\ body.label.t = "undefined"
            /\ Has(prev.store, body.agentId.s)
            /\ "label" \in DOMAIN Get(prev.store, body.agentId.s)
            /\ r.label = Get(prev.store, body.agentId.s).label

\* a report without client, cwd, pid and label replaced a record that had all
\* four: the first three are gone, the label is kept
C31_Witness ==
  /\ Accepted
  /\ req.body.client.t = "undefined"
  /\ req.body.cwd.t = "undefined"
  /\ req.body.pid.t = "undefined"
  /\ Has(prev.store, req.body.agentId.s)
  /\ {"client", "cwd", "pid", "label"} \subseteq DOMAIN Get(prev.store, req.body.agentId.s)
  /\ Get(prev.store, req.body.agentId.s).projectName # req.body.projectName.s
  /\ "label" \in DOMAIN Get(store, req.body.agentId.s)
  /\ "client" \notin DOMAIN Get(store, req.body.agentId.s)

\* C32: an accepted report stamps the agent's record with the clock's value
\* at that moment, which is not below the stamp the record had; and the
\* timestamp of a record that stays in the registry changes only by an
\* accepted report for its agent (not by a label patch, a timer, a sweep, a
\* connection, a frame or the passing of time).
C32_TimestampOnlyByReport ==
  /\ Accepted =>
       LET id == req.body.agentId.s IN
       /\ Get(store, id).timestamp = now
       /\ Has(prev.store, id) => Get(prev.store, id).timestamp <= Get(store, id).timestamp
  /\ \A id \in Keys(store) \cap Keys(prev.store) :
       Get(store, id).timestamp # Get(prev.store, id).timestamp
         => Accepted /\ req.body.agentId.s = id

\* a report refreshed the timestamp of a record that existed, after the clock
\* had advanced
C32_Witness ==
  /\ Accepted
  /\ Has(prev.store, req.body.agentId.s)
  /\ Get(prev.store, req.body.agentId.s).timestamp < Get(store, req.body.agentId.s).timestamp
  /\ Get(store, req.body.agentId.s).timestamp = now

\* ---------------------------------------------------------------------------
\* The pending state of an agent under every way it can end: reports,
\* removals, timer expiry, shutdown
\* ---------------------------------------------------------------------------

PendingObservers == {"o1"}

NextPending ==
  \/ \E body \in CoreBodies : Step(Accepting(PostStatus(body)))
  \/ \E id \in AgentIds : Step(Accepting(DeleteStatus(id)))
  \/ \E id \in AgentIds, body \in LabelBodies : Step(Accepting(PatchLabel(id, body)))
  \/ \E t \in timers : Step(TimerFire(t))
  \/ \E alive \in SUBSET Pids : Step(IntervalElapsed(alive))
  \/ \E o \in PendingObservers : Step(Accepting(Connect(o)))
  \/ \E terminates \in BOOLEAN : Step(Shutdown(terminates))

SpecPending == Init /\ [][NextPending]_vars

\* C33: every agent with a pending debounce timer is in the registry with
\* status waiting_for_user, and every live timer is the pending one of its
\* agent; so a timer that fires always announces.  An agent becomes pending
\* only by an accepted waiting_for_user report for it, and stops being
\* pending only by its timer's expiry, by an accepted report for it, by its
\* removal from the registry, or by shutdown.
C33_PendingIsWaiting ==
  /\ \A id \in DOMAIN pendingWaiting :
       /\ Has(store, id)
       /\ Get(store, id).status = "waiting_for_user"
  /\ \A t \in timers :
       t.agentId \in DOMAIN pendingWaiting /\ pendingWaiting[t.agentId] = t.h
  /\ req.op = "timer" =>
       \A o \in Observers :
         conn[o] = "OPEN" => Len(UpdatesIn(Sent(o), req.id)) = 1
  /\ \A id \in (DOMAIN pendingWaiting) \ (DOMAIN prev.pendingWaiting) :
       /\ Accepted
       /\ req.body.agentId.s = id
       /\ req.body.status.s = "waiting_for_user"
  /\ \A id \in (DOMAIN prev.pendingWaiting) \ (DOMAIN pendingWaiting) :
       \/ req.op = "timer" /\ req.id = id
       \/ Accepted /\ req.body.agentId.s = id /\ req.body.status.s # "waiting_for_user"
       \/ ~Has(store, id)
       \/ req.op = "shutdown"

\* a timer fired and announced to a connected observer while another agent
\* was still pending
C33_Witness ==
  /\ req.op = "timer"
  /\ \E o \in Observers : conn[o] = "OPEN" /\ Len(Sent(o)) = 1
  /\ \E id \in DOMAIN pendingWaiting : id # req.id

\* ---------------------------------------------------------------------------
\* The observer's view (extension.ts: previousAgents), built from the
\* messages of its connection
\* ---------------------------------------------------------------------------

\* wsClient.on("snapshot" | "status_update" | "agent_removed")
ApplyMessage(view, m) ==
  CASE m.type = "snapshot"      -> m.data
    [] m.type = "status_update" -> MapSet(view, m.data.agentId, m.data)
    [] m.type = "agent_removed" -> MapDelete(view, m.data.agentId)
    [] OTHER                    -> view

RECURSIVE View(_)
View(ms) ==
  IF ms = <<>> THEN <<>>
  ELSE ApplyMessage(View(SubSeq(ms, 1, Len(ms) - 1)), ms[Len(ms)])

\* C34: for every connected observer, the view built from the messages sent
\* to it holds an agent without a pending debounce timer exactly when the
\* registry does, and then with the registry's record.
C34_ViewAgrees ==
  \A o \in Observers :
    conn[o] = "OPEN" =>
      \A id \in AgentIds \ DOMAIN pendingWaiting :
        /\ Has(View(msgs[o]), id) <=> Has(store, id)
        /\ Has(store, id) => Get(View(msgs[o]), id) = Get(store, id)

\* an observer whose view was built from a snapshot, a status_update and an
\* agent_removed holds one agent that is not pending, and another
\* agent is gone from it and from the registry
C34_Witness ==
  \E o \in Observers :
    /\ conn[o] = "OPEN"
    /\ \E i, j, k \in 1..Len(msgs[o]) :
         /\ msgs[o][i].type = "snapshot"
         /\ msgs[o][j].type = "status_update"
         /\ msgs[o][k].type = "agent_removed"
         /\ j < k
    /\ \E id \in AgentIds \ DOMAIN pendingWaiting : Has(View(msgs[o]), id)

\* the statement of C35; unannounced(id): the removed agents that the
\* statement allows the observer not to have been told about
C35_Statement(unannounced(_)) ==
  \A o \in Observers :
    \A k \in (Len(prev.msgs[o]) + 1)..Len(msgs[o]) :
      msgs[o][k].type = "agent_removed" =>
        LET id == msgs[o][k].data.agentId IN
        \/ Has(View(SubSeq(msgs[o], 1, k - 1)), id)
        \/ unannounced(id)

NoAgent(id) == FALSE

WasPending(id) == Has(prev.store, id) /\ id \in DOMAIN prev.pendingWaiting

\* C35 as claimed: every agent_removed sent to an observer names an agent
\* that the view built from the earlier messages of that observer holds.
C35_RemovedWasKnown == C35_Statement(NoAgent)

\* C35 as amended: the same, except for an agent that was in the registry
\* with its debounce pending when it was removed: its waiting_for_user
\* report may never have been announced to the observer.
C35_RemovedWasKnownOrPending == C35_Statement(WasPending)

\* an observer that had received its snapshot was sent agent_removed for a
\* pending agent it had never been told about
C35_Witness ==
  \E o \in Observers :
    /\ conn[o] = "OPEN"
    /\ Len(prev.msgs[o]) >= 1
    /\ Len(Sent(o)) >= 1
    /\ Sent(o)[1].type = "agent_removed"
    /\ WasPending(Sent(o)[1].data.agentId)
    /\ ~Has(View(prev.msgs[o]), Sent(o)[1].data.agentId)

\* ---------------------------------------------------------------------------
\* The pid of a report: absent, null, zero, not a number, or a process id
\* ---------------------------------------------------------------------------

ReportPids == {Undefined, JNull, JNum(0), JStr("7"), JNum(7), JNum(8)}

PidBodies ==
  {Body(JStr(a), JStr("running"), JStr("proj"), Undefined, Undefined, pid, Undefined) :
     a \in AgentIds, pid \in ReportPids}

NextPid ==
  \/ \E body \in PidBodies : Step(PostStatus(body))
  \/ \E id \in AgentIds : Step(DeleteStatus(id))
  \/ \E o \in LabelObservers : Step(Connect(o))

SpecPid == Init /\ [][NextPid]_vars

\* the report carries a pid the handler keeps: a number other than zero
CarriesPid(body) == body.pid.t = "number" /\ body.pid.n # 0

\* C36: a report with valid agentId, status and projectName is accepted
\* whatever its pid field is.  It adds no record but its own, and every other
\* record is left exactly as it was, unless that record carries the pid the
\* report carries, in which case it is removed.  A report whose pid is
\* absent, null, zero or not a number is stored without pid and removes
\* nothing.
C36_OthersUntouched ==
  req.op = "post" =>
    LET id == req.body.agentId.s IN
    /\ resp.code = 200
    /\ Keys(store) \subseteq Keys(prev.store) \cup {id}
    /\ \A other \in Keys(prev.store) \ {id} :
         \/ Has(store, other) /\ Get(store, other) = Get(prev.store, other)
         \/ /\ ~Has(store, other)
            /\ CarriesPid(req.body)
            /\ HasPid(Get(prev.store, other))
            /\ Get(prev.store, other).pid = req.body.pid.n
    /\ ~CarriesPid(req.body) =>
         /\ ~HasPid(Get(store, id))
         /\ Keys(prev.store) \subseteq Keys(store)

\* a report whose pid is null, zero or a string was accepted while another
\* agent without pid was registered: both are in the registry, without pid
C36_Witness ==
  /\ Accepted
  /\ req.body.pid.t # "undefined"
  /\ ~CarriesPid(req.body)
  /\ \E other \in Keys(prev.store) \ {req.body.agentId.s} :
       /\ ~HasPid(Get(prev.store, other))
       /\ Has(store, other)
  /\ ~HasPid(Get(store, req.body.agentId.s))
  /\ Len(store) = 2

\* the number of agent_removed messages for agent id among ms
RemovalsOf(ms, id) ==
  Len(SelectSeq(ms, LAMBDA m : m.type = "agent_removed" /\ m.data.agentId = id))

\* C37: in every step, each connected observer is sent exactly one
\* agent_removed for each agent that was in the registry before the step and
\* is not in it after, and none for any other agent, whichever path removed
\* the record (DELETE, eviction by a report with the same pid, sweep).
C37_RemovedIffAnnounced ==
  \A o \in Observers :
    conn[o] = "OPEN" =>
      \A id \in AgentIds :
        RemovalsOf(Sent(o), id) =
          (IF Has(prev.store, id) /\ ~Has(store, id) THEN 1 ELSE 0)

\* a report evicted the record of another agent with the same pid and a
\* connected observer was sent its agent_removed, then the report's update
C37_Witness ==
  /\ Accepted
  /\ \E id \in Keys(prev.store) \ Keys(store) :
       \E o \in Observers :
         /\ conn[o] = "OPEN"
         /\ Len(Sent(o)) = 2
         /\ SameMsg(Sent(o)[1], AgentRemoved(id))

\* ---------------------------------------------------------------------------
\* Eviction with three agents and two process ids
\* ---------------------------------------------------------------------------

EvictAgents == {"a1", "a2", "a3"}

EvictPids == {Undefined, JNum(7), JNum(8)}

EvictBodies ==
  {Body(JStr(a), JStr("running"), JStr("proj"), Undefined, Undefined, pid, Undefined) :
     a \in EvictAgents, pid \in EvictPids}

NextEvict ==
  \/ \E body \in EvictBodies : Step(PostStatus(body))
  \/ \E id \in EvictAgents : Step(DeleteStatus(id))
  \/ \E o \in LabelObservers : Step(Connect(o))

SpecEvict == Init /\ [][NextEvict]_vars

\* C38: no two records of the registry carry the same pid, so an accepted
\* report removes at most one other record and each connected observer is
\* sent at most one agent_removed by it.
C38_AtMostOneEvicted ==
  /\ \A i, j \in 1..Len(store) :
       (i # j /\ HasPid(store[i]) /\ HasPid(store[j])) => store[i].pid # store[j].pid
  /\ Accepted =>
       /\ Cardinality(Keys(prev.store) \ Keys(store)) <= 1
       /\ \A o \in Observers :
            Len(SelectSeq(Sent(o), LAMBDA m : m.type = "agent_removed")) <= 1

\* a report evicted one of two other records: the one with its pid
C38_Witness ==
  /\ Accepted
  /\ Cardinality(Keys(prev.store) \ {req.body.agentId.s}) = 2
  /\ Cardinality(Keys(prev.store) \ Keys(store)) = 1
  /\ \E o \in Observers :
       conn[o] = "OPEN" /\ Len(Sent(o)) = 2 /\ Sent(o)[1].type = "agent_removed"

\* ---------------------------------------------------------------------------
\* Liveness of the debounce: the event loop runs a timer's callback once it
\* is due
\* ---------------------------------------------------------------------------

MaxLiveSteps == 3

LiveStep(A) ==
  /\ steps < MaxLiveSteps
  /\ steps' = steps + 1
  /\ A

\* a timer that is pending expires; nothing has to arrive for that
Expiry == \E t \in timers : TimerFire(t) /\ UNCHANGED steps

NextLive ==
  \/ \E body \in DebounceBodies : LiveStep(Accepting(PostStatus(body)))
  \/ LiveStep(Accepting(DeleteStatus("a1")))
  \/ \E o \in DebounceObservers : LiveStep(Accepting(Connect(o)))
  \/ \E terminates \in BOOLEAN : LiveStep(Shutdown(terminates))
  \/ Expiry

\* (mutant of ExpiryFairness: the event loop may leave a due timer forever)
NoFairness == TRUE

\* setTimeout: a callback that stays scheduled is eventually run
ExpiryFairness == WF_vars(Expiry)

SpecLive == Init /\ [][NextLive]_vars /\ ExpiryFairness

\* the pending state of agent id has just ended: by its timer, which announced
\* the record to every connected observer, by another report for it, by its
\* removal, or by shutdown
Resolved(id) ==
  /\ id \notin DOMAIN pendingWaiting
  /\ id \in DOMAIN prev.pendingWaiting
  /\ \/ /\ req.op = "timer"
        /\ req.id = id
        /\ \A o \in Observers :
             conn[o] = "OPEN" =>
               /\ Len(Sent(o)) = 1
               /\ IsUpdateFor(Sent(o)[1], id)
               /\ Sent(o)[1].data.status = "waiting_for_user"
     \/ Accepted /\ req.body.agentId.s = id
     \/ ~Has(store, id)
     \/ req.op = "shutdown"

\* C39: with timers that expire once they are due, an agent whose
\* waiting_for_user report is pending does not stay pending forever: its
\* timer expires and announces the record with status waiting_for_user, or a
\* report for the agent, its removal or shutdown ends the pending state
\* first.
C39_PendingResolved ==
  \A id \in AgentIds : (id \in DOMAIN pendingWaiting) ~> Resolved(id)

\* the timer of a pending agent expired and announced it to a connected
\* observer
C39_Witness ==
  /\ req.op = "timer"
  /\ Resolved(req.id)
  /\ \E o \in Observers : conn[o] = "OPEN" /\ Len(Sent(o)) = 1

\* ---------------------------------------------------------------------------
\* websocket-client.ts: WebSocketClient.  A socket is [id, listeners, state];
\* listeners: the handlers connect() attached are still on it.
\* ---------------------------------------------------------------------------

MaxClientSteps == 5

MaxReconnectDelay == 30000

ClientPorts == {1, 2}

\* what portResolver() returns: null (0) or the port in the lock file
FreshPorts == {0, 2}

Socket(id, listeners, state) == [id |-> id, listeners |-> listeners, state |-> state]

\* (mutant of ScheduleReconnect: the test of this.reconnectTimer left out)
ScheduleReconnectUnguarded(c) ==
  IF c.disposed THEN c
  ELSE [c EXCEPT !.set = @ + 1,
                 !.reconnectTimer = c.set + 1,
                 !.timers = @ \cup {c.set + 1},
                 !.reconnectDelay = IF 2 * @ < MaxReconnectDelay THEN 2 * @
                                    ELSE MaxReconnectDelay]

\* scheduleReconnect()
ScheduleReconnect(c) ==
  IF c.disposed \/ c.reconnectTimer # 0 THEN c
  ELSE [c EXCEPT !.set = @ + 1,
                 !.reconnectTimer = c.set + 1,
                 !.timers = @ \cup {c.set + 1},
                 !.reconnectDelay = IF 2 * @ < MaxReconnectDelay THEN 2 * @
                                    ELSE MaxReconnectDelay]

\* disconnect(): clearTimeout, then removeAllListeners and close on this.ws
Disconnect(c) ==
  [c EXCEPT !.timers = IF c.reconnectTimer # 0 THEN @ \ {c.reconnectTimer} ELSE @,
            !.reconnectTimer = 0,
            !.sockets = {IF s.id = c.ws THEN Socket(s.id, FALSE, "closed") ELSE s : s \in @},
            !.ws = 0]

\* connect(); freshPort: what the port resolver returns; throws: whether
\* new WebSocket(...) throws
ConnectCall(c, freshPort, throws) ==
  IF c.disposed THEN c
  ELSE LET c1 == [c EXCEPT !.port = IF freshPort # 0 /\ freshPort # @
                                      THEN freshPort ELSE @]
       IN  IF throws THEN ScheduleReconnect(c1)
           ELSE [c1 EXCEPT !.made = @ + 1,
                           !.ws = c1.made + 1,
                           !.sockets = @ \cup {Socket(c1.made + 1, TRUE, "connecting")}]

ClientStep(op, c) ==
  /\ steps < MaxClientSteps
  /\ steps' = steps + 1
  /\ client' = [c EXCEPT !.op = op]
  /\ UNCHANGED <<core, host, hook, sorting, probe>>

ClientConnect(freshPort, throws) ==
  ClientStep("connect", ConnectCall(client, freshPort, throws))

\* updatePort(port)
UpdatePort(port, freshPort, throws) ==
  ClientStep("updatePort",
             IF client.port # port
               THEN ConnectCall(Disconnect([client EXCEPT !.port = port]), freshPort, throws)
               ELSE client)

\* ws.on("open")
SocketOpen(s) ==
  /\ s \in client.sockets
  /\ s.state = "connecting"
  /\ ClientStep("open",
       [client EXCEPT !.sockets = (@ \ {s}) \cup {Socket(s.id, s.listeners, "open")},
                      !.reconnectDelay = IF s.listeners THEN 1000 ELSE @])

\* ws.on("close"): scheduleReconnect(), if the handler is still on the socket
SocketClose(s) ==
  /\ s \in client.sockets
  /\ s.state # "closed"
  /\ LET c == [client EXCEPT !.sockets = (@ \ {s}) \cup {Socket(s.id, s.listeners, "closed")}]
     IN  ClientStep(IF s.listeners THEN "close" ELSE "close unheard",
                    IF s.listeners THEN ScheduleReconnect(c) ELSE c)

\* ws.on("error"): the handler does nothing
SocketError(s) ==
  /\ s \in client.sockets
  /\ s.state # "closed"
  /\ ClientStep("error", client)

\* the reconnect timer's callback: this.reconnectTimer = null; this.connect()
ReconnectFire(h, freshPort, throws) ==
  /\ h \in client.timers
  /\ ClientStep("reconnect",
       ConnectCall([client EXCEPT !.timers = @ \ {h}, !.reconnectTimer = 0],
                   freshPort, throws))

\* dispose()
Dispose ==
  ClientStep("dispose",
    Disconnect([client EXCEPT !.disposed = TRUE,
                              !.madeAtDispose = IF @ = -1 THEN client.made ELSE @]))

NextClient ==
  \/ \E freshPort \in FreshPorts, throws \in BOOLEAN : ClientConnect(freshPort, throws)
  \/ \E port \in ClientPorts, freshPort \in FreshPorts, throws \in BOOLEAN :
       UpdatePort(port, freshPort, throws)
  \/ \E s \in client.sockets : SocketOpen(s)
  \/ \E s \in client.sockets : SocketClose(s)
  \/ \E s \in client.sockets : SocketError(s)
  \/ \E h \in client.timers, freshPort \in FreshPorts, throws \in BOOLEAN :
       ReconnectFire(h, freshPort, throws)
  \/ Dispose

SpecClient == Init /\ [][NextClient]_vars

\* C40: at most one reconnect timer is live, the one this.reconnectTimer
\* holds; and once dispose() has been called no reconnect timer is live and
\* no socket has been created since.
C40_OneTimerNoneAfterDispose ==
  /\ Cardinality(client.timers) <= 1
  /\ client.timers \subseteq {client.reconnectTimer}
  /\ client.disposed =>
       /\ client.timers = {}
       /\ client.made = client.madeAtDispose

\* after dispose(), which cleared a pending reconnect timer, a socket that
\* still carried the client's handlers closed
C40_Witness ==
  /\ client.disposed
  /\ client.op = "close"
  /\ client.set >= 1
  /\ client.made >= 2

====
